---- MODULE Spec2Model ----
(***************************************************************************)
(* Retrieval-ranking core of the knowledge agent:                          *)
(*   app/utils/context_assembler.py    ContextAssembler                    *)
(*   app/utils/semantic_chunker.py     semantic_chunk_text                 *)
(*   app/utils/structured_pdf_parser.py UniversalPDFParser                 *)
(*   app/utils/bm25_reranker.py        BM25Reranker                        *)
(* Strings are sequences of one-character strings, so that strip, split,  *)
(* join and difflib's ratio are computed character by character.          *)
(***************************************************************************)
EXTENDS Integers, Sequences, FiniteSets, TLC

VARIABLES
    assembler,       \* ContextAssembler fields: max_chunks, similarity_threshold, neighbor_gap
    search_results,  \* the argument of assemble
    asm_ret,         \* what the assemble call produced (and its intermediate lists)
    chunk_in,        \* the arguments of semantic_chunk_text
    chunk_ret,       \* what semantic_chunk_text produced
    parser,          \* UniversalPDFParser fields: chunk_size_chars
    doc,             \* the document handed to parse
    parse_ret,       \* what parse produced
    corpus,          \* the corpus handed to BM25Reranker(...)
    bm25,            \* the reranker instance (its BM25Okapi index)
    docs,            \* the candidate list handed to rerank (mutated in place)
    rr_ret,          \* what the last rerank call returned
    rr_prev,         \* what the rerank call before it returned
    search_in,       \* search_documents: SEARCH_MODE, top_k, and what the providers answer
    search_ret,      \* what search_documents produced
    optimizer,       \* QueryOptimizer fields: top_k
    query,           \* the argument of optimize
    opt_ret,         \* what optimize produced
    split_in,        \* the arguments of a sentence splitter call
    split_ret,       \* what the splitter produced
    call_kind,       \* two calls on one instance: which operation they are
    call_in,         \* the input of each of the two calls
    frame,           \* the local variables of each call
    call_ret,        \* what each call returned
    kb_in,           \* search_knowledge_base: its arguments and what the services answer
    kb_ret           \* what search_knowledge_base produced, with the service calls it made

vars == <<assembler, search_results, asm_ret, chunk_in, chunk_ret,
          parser, doc, parse_ret, corpus, bm25, docs, rr_ret, rr_prev,
          search_in, search_ret, optimizer, query, opt_ret, split_in, split_ret,
          call_kind, call_in, frame, call_ret, kb_in, kb_ret>>

asmVars == <<assembler, search_results, asm_ret>>
chunkVars == <<chunk_in, chunk_ret>>
parseVars == <<parser, doc, parse_ret>>
rerankVars == <<corpus, bm25, docs, rr_ret, rr_prev>>
searchVars == <<search_in, search_ret>>
optVars == <<optimizer, query, opt_ret>>
splitVars == <<split_in, split_ret>>
callVars == <<call_kind, call_in, frame, call_ret>>
kbVars == <<kb_in, kb_ret>>

\* A call that has not been made.
NoCall == [status |-> "none"]

(***************************************************************************)
(* Generic helpers                                                         *)
(***************************************************************************)
Range(s) == {s[i] : i \in 1..Len(s)}

SeqsUpTo(S, n) == UNION {[1..k -> S] : k \in 0..n}

RECURSIVE SumSeq(_)
SumSeq(s) == IF s = <<>> THEN 0 ELSE Head(s) + SumSeq(Tail(s))

RECURSIVE Concat(_)
Concat(ss) == IF ss = <<>> THEN <<>> ELSE Head(ss) \o Concat(Tail(ss))

\* sep.join(parts)
RECURSIVE Join(_, _)
Join(parts, sep) ==
    IF parts = <<>> THEN <<>>
    ELSE IF Len(parts) = 1 THEN Head(parts)
    ELSE Head(parts) \o sep \o Join(Tail(parts), sep)

Whitespace == {" ", "\n"}

IsSpace(c) == c \in Whitespace

\* str.strip()
RECURSIVE LStrip(_)
LStrip(s) == IF s # <<>> /\ IsSpace(Head(s)) THEN LStrip(Tail(s)) ELSE s

RECURSIVE RStrip(_)
RStrip(s) ==
    IF s # <<>> /\ IsSpace(s[Len(s)]) THEN RStrip(SubSeq(s, 1, Len(s) - 1)) ELSE s

Strip(s) == RStrip(LStrip(s))

\* str.split(): the words of a text, its maximal runs of non-whitespace
\* characters. Two texts are equal modulo whitespace normalization when
\* their words are.
RECURSIVE WordsWalk(_, _, _)
WordsWalk(text, i, cur) ==
    IF i > Len(text) THEN (IF cur = <<>> THEN <<>> ELSE <<cur>>)
    ELSE IF text[i] \in Whitespace
    THEN (IF cur = <<>> THEN <<>> ELSE <<cur>>) \o WordsWalk(text, i + 1, <<>>)
    ELSE WordsWalk(text, i + 1, Append(cur, text[i]))

Words(text) == WordsWalk(text, 1, <<>>)

(***************************************************************************)
(* difflib.SequenceMatcher(None, a, b).ratio(), as ContextAssembler uses   *)
(* it (no junk function; the popularity heuristic needs 200 characters).   *)
(***************************************************************************)
\* Length of the common run of a[i..ahi] and b[j..bhi] that starts at (i, j).
RECURSIVE RunLen(_, _, _, _, _, _)
RunLen(a, b, i, j, ahi, bhi) ==
    IF i > ahi \/ j > bhi THEN 0
    ELSE IF a[i] # b[j] THEN 0
    ELSE 1 + RunLen(a, b, i + 1, j + 1, ahi, bhi)

\* find_longest_match: the longest block a[i..i+k-1] = b[j..j+k-1] inside the
\* windows; of the longest, the one starting earliest in a, and of those the
\* one starting earliest in b; (alo, blo, 0) when nothing matches.
find_longest_match(a, b, alo, ahi, blo, bhi) ==
    LET pairs == (alo..ahi) \X (blo..bhi)
        best == IF pairs = {} THEN 0
                ELSE CHOOSE k \in 0..(ahi - alo + 1) :
                       /\ \A p \in pairs : RunLen(a, b, p[1], p[2], ahi, bhi) <= k
                       /\ k > 0 => \E p \in pairs : RunLen(a, b, p[1], p[2], ahi, bhi) = k
        hits == {p \in pairs : RunLen(a, b, p[1], p[2], ahi, bhi) = best}
        bi == CHOOSE i \in {p[1] : p \in hits} : \A p \in hits : i <= p[1]
        bj == CHOOSE j \in {p[2] : p \in {q \in hits : q[1] = bi}} :
                 \A p \in {q \in hits : q[1] = bi} : j <= p[2]
    IN IF best = 0 THEN [i |-> alo, j |-> blo, k |-> 0]
       ELSE [i |-> bi, j |-> bj, k |-> best]

\* get_matching_blocks, summed: the number of matched characters.
RECURSIVE MatchedChars(_, _, _, _, _, _)
MatchedChars(a, b, alo, ahi, blo, bhi) ==
    IF alo > ahi \/ blo > bhi THEN 0
    ELSE LET m == find_longest_match(a, b, alo, ahi, blo, bhi)
         IN IF m.k = 0 THEN 0
            ELSE m.k + MatchedChars(a, b, alo, m.i - 1, blo, m.j - 1)
                     + MatchedChars(a, b, m.i + m.k, ahi, m.j + m.k, bhi)

\* ratio() = 2.0 * matches / (len(a) + len(b)), and 1.0 for two empty strings;
\* kept as the fraction <<numerator, denominator>>.
Ratio(a, b) ==
    IF Len(a) + Len(b) = 0 THEN <<1, 1>>
    ELSE <<2 * MatchedChars(a, b, 1, Len(a), 1, Len(b)), Len(a) + Len(b)>>

\* fraction r > fraction t (positive denominators)
FracGT(r, t) == r[1] * t[2] > t[1] * r[2]

(***************************************************************************)
(* ContextAssembler                                                        *)
(***************************************************************************)
\* float("inf"), the chunk_index of a candidate that carries none.
Inf == 999

\* is_similar(a, b) with threshold thr
is_similar(a, b, thr) ==
    IF a = <<>> \/ b = <<>> THEN FALSE
    ELSE FracGT(Ratio(a, b), thr)

\* deduplicate: keep a block unless it is similar to one already kept.
RECURSIVE DedupFold(_, _, _)
DedupFold(blocks, unique, thr) ==
    IF blocks = <<>> THEN unique
    ELSE LET block == Head(blocks)
         IN IF \E k \in 1..Len(unique) : is_similar(block.text, unique[k].text, thr)
            THEN DedupFold(Tail(blocks), unique, thr)
            ELSE DedupFold(Tail(blocks), Append(unique, block), thr)

deduplicate(blocks, thr) == DedupFold(blocks, <<>>, thr)

\* The grouping key of a hit: its section, or the per-source placeholder.
SectionKey(hit) ==
    IF hit.section_path # "" THEN <<"section", hit.section_path>>
    ELSE <<"__no_section__", IF hit.source # "" THEN hit.source ELSE "unknown">>

\* Mutant of GroupItem: a missing chunk_index is stored as 0.
GroupItemZeroIndex(hit) ==
    [chunk_index |-> IF hit.chunk_index = <<>> THEN 0 ELSE hit.chunk_index[1],
     text        |-> Strip(hit.content),
     score       |-> hit.score,
     source      |-> hit.source]

\* The item group_by_section stores for a hit.
GroupItem(hit) ==
    [chunk_index |-> IF hit.chunk_index = <<>> THEN Inf ELSE hit.chunk_index[1],
     text        |-> Strip(hit.content),
     score       |-> hit.score,
     source      |-> hit.source]

AddToGroup(grouped, key, item) ==
    IF \E g \in 1..Len(grouped) : grouped[g].key = key
    THEN LET g == CHOOSE g \in 1..Len(grouped) : grouped[g].key = key
         IN [grouped EXCEPT ![g].items = Append(@, item)]
    ELSE Append(grouped, [key |-> key, items |-> <<item>>])

RECURSIVE GroupFold(_, _)
GroupFold(hits, grouped) ==
    IF hits = <<>> THEN grouped
    ELSE IF Head(hits).content = <<>> THEN GroupFold(Tail(hits), grouped)
    ELSE GroupFold(Tail(hits),
                   AddToGroup(grouped, SectionKey(Head(hits)), GroupItem(Head(hits))))

\* Mutant of group_by_section: the "if not content: continue" test is missing.
RECURSIVE GroupFoldKeepEmpty(_, _)
GroupFoldKeepEmpty(hits, grouped) ==
    IF hits = <<>> THEN grouped
    ELSE GroupFoldKeepEmpty(Tail(hits),
                            AddToGroup(grouped, SectionKey(Head(hits)), GroupItem(Head(hits))))

group_by_section_keep_empty(hits) == GroupFoldKeepEmpty(hits, <<>>)

\* group_by_section: the sections in order of first appearance, each with its
\* items in input order (a dict keeps insertion order).
group_by_section(hits) == GroupFold(hits, <<>>)

\* sorted(items, key=chunk_index): stable, ascending.
RECURSIVE InsertByIndex(_, _)
InsertByIndex(sorted, x) ==
    IF sorted = <<>> THEN <<x>>
    ELSE IF sorted[Len(sorted)].chunk_index <= x.chunk_index THEN Append(sorted, x)
    ELSE Append(InsertByIndex(SubSeq(sorted, 1, Len(sorted) - 1), x), sorted[Len(sorted)])

RECURSIVE SortByIndexFold(_, _)
SortByIndexFold(items, acc) ==
    IF items = <<>> THEN acc
    ELSE SortByIndexFold(Tail(items), InsertByIndex(acc, Head(items)))

SortByChunkIndex(items) == SortByIndexFold(items, <<>>)

\* Mutant of WithinGap: the comparison is strict.
WithinGapStrict(idx, last_idx, gap) ==
    IF idx = Inf THEN FALSE
    ELSE IF last_idx = Inf THEN TRUE
    ELSE idx - last_idx < gap

\* (idx - last_idx) <= neighbor_gap in float arithmetic: inf - inf is nan and
\* compares False, inf - n is inf, n - inf is -inf.
WithinGap(idx, last_idx, gap) ==
    IF idx = Inf THEN FALSE
    ELSE IF last_idx = Inf THEN TRUE
    ELSE idx - last_idx <= gap

\* Mutant of MakeBlock: the last item of a group of several is left out.
MakeBlockWithoutLast(key, group) ==
    LET kept == IF Len(group) > 1 THEN SubSeq(group, 1, Len(group) - 1) ELSE group
        sources == SelectSeq([k \in 1..Len(kept) |-> kept[k].source], LAMBDA x : x # "")
    IN [section       |-> key,
        text          |-> Join([k \in 1..Len(kept) |-> kept[k].text], <<"\n">>),
        source        |-> IF sources # <<>> THEN sources[1] ELSE "",
        chunk_indices |-> [k \in 1..Len(kept) |-> kept[k].chunk_index],
        avg_score     |-> <<SumSeq([k \in 1..Len(kept) |-> kept[k].score]), Len(kept)>>]

\* flush_current: the block made of one group of items.
MakeBlock(key, group) ==
    LET sources == SelectSeq([k \in 1..Len(group) |-> group[k].source], LAMBDA x : x # "")
    IN [section       |-> key,
        text          |-> Join([k \in 1..Len(group) |-> group[k].text], <<"\n">>),
        source        |-> IF sources # <<>> THEN sources[1] ELSE "",
        chunk_indices |-> [k \in 1..Len(group) |-> group[k].chunk_index],
        avg_score     |-> <<SumSeq([k \in 1..Len(group) |-> group[k].score]), Len(group)>>]

\* The loop of stitch_neighbors over one sorted section: last is <<>> for
\* None and <<idx>> afterwards.
RECURSIVE StitchWalk(_, _, _, _, _)
StitchWalk(items, current_group, last, key, gap) ==
    IF items = <<>>
    THEN IF current_group = <<>> THEN <<>> ELSE <<MakeBlock(key, current_group)>>
    ELSE LET it == Head(items)
         IN IF last = <<>>
            THEN StitchWalk(Tail(items), <<it>>, <<it.chunk_index>>, key, gap)
            ELSE IF WithinGap(it.chunk_index, last[1], gap)
            THEN StitchWalk(Tail(items), Append(current_group, it), <<it.chunk_index>>, key, gap)
            ELSE (IF current_group = <<>> THEN <<>> ELSE <<MakeBlock(key, current_group)>>)
                 \o StitchWalk(Tail(items), <<it>>, <<it.chunk_index>>, key, gap)

StitchSection(g, gap) == StitchWalk(SortByChunkIndex(g.items), <<>>, <<>>, g.key, gap)

\* stitch_neighbors: the blocks of every section, sections in dict order.
stitch_neighbors(grouped, gap) ==
    Concat([g \in 1..Len(grouped) |-> StitchSection(grouped[g], gap)])

\* sorted(blocks, key=avg_score, reverse=True): stable, descending.
AvgGT(x, y) == x[1] * y[2] > y[1] * x[2]

RECURSIVE InsertByAvgDesc(_, _)
InsertByAvgDesc(sorted, x) ==
    IF sorted = <<>> THEN <<x>>
    ELSE IF ~AvgGT(x.avg_score, sorted[Len(sorted)].avg_score) THEN Append(sorted, x)
    ELSE Append(InsertByAvgDesc(SubSeq(sorted, 1, Len(sorted) - 1), x), sorted[Len(sorted)])

RECURSIVE SortByAvgFold(_, _)
SortByAvgFold(blocks, acc) ==
    IF blocks = <<>> THEN acc
    ELSE SortByAvgFold(Tail(blocks), InsertByAvgDesc(acc, Head(blocks)))

\* Mutant of SortByAvgScoreDesc: the blocks stay in deduplication order.
SortByAvgScoreNone(blocks) == blocks

SortByAvgScoreDesc(blocks) == SortByAvgFold(blocks, <<>>)

\* Mutant of SlicePrefix: the slice keeps one block too many.
SlicePrefixOneMore(s, n) ==
    SubSeq(s, 1, IF n + 1 < Len(s) THEN n + 1 ELSE Len(s))

\* blocks[:n]
SlicePrefix(s, n) ==
    IF n >= 0 THEN SubSeq(s, 1, IF n < Len(s) THEN n ELSE Len(s))
    ELSE SubSeq(s, 1, IF Len(s) + n > 0 THEN Len(s) + n ELSE 0)

\* One rendered block: the provenance header and the text.
RenderBlock(b) ==
    [section |-> b.section, source |-> b.source, chunk_indices |-> b.chunk_indices,
     avg_score |-> b.avg_score, text |-> b.text]

EmptyContext ==
    [status |-> "ok", context |-> <<>>, grouped |-> <<>>, stitched |-> <<>>,
     deduped |-> <<>>, selected |-> <<>>]

\* assemble(search_results). The returned string is context: the rendered
\* blocks that "\n\n---\n\n".join puts together, "" when there are none.
assemble(self, hits) ==
    IF hits = <<>> THEN EmptyContext
    ELSE LET grouped == group_by_section(hits)
         IN IF grouped = <<>> THEN EmptyContext
            ELSE LET stitched == stitch_neighbors(grouped, self.neighbor_gap)
                     deduped == deduplicate(stitched, self.similarity_threshold)
                     selected == SlicePrefix(SortByAvgScoreDesc(deduped), self.max_chunks)
                 IN IF stitched = <<>> THEN [EmptyContext EXCEPT !.grouped = grouped]
                    ELSE [status   |-> "ok",
                          context  |-> [k \in 1..Len(selected) |-> RenderBlock(selected[k])],
                          grouped  |-> grouped,
                          stitched |-> stitched,
                          deduped  |-> deduped,
                          selected |-> selected]

\* The call assemble(search_results) on the assembler.
Assemble ==
    /\ asm_ret.status = "none"
    /\ asm_ret' = assemble(assembler, search_results)
    /\ UNCHANGED <<assembler, search_results, chunkVars, parseVars, rerankVars,
                   searchVars, optVars, splitVars, callVars, kbVars>>

(***************************************************************************)
(* semantic_chunk_text                                                     *)
(***************************************************************************)
Punct == {".", "!", "?"}

\* The first position at or after i that holds no character of seps.
RECURSIVE SkipRun(_, _, _)
SkipRun(text, i, seps) ==
    IF i <= Len(text) /\ text[i] \in seps THEN SkipRun(text, i + 1, seps) ELSE i

\* re.split(r'(?<=[.!?])SEP+', text): cut at every run of separator
\* characters that follows a punctuation character; the run is dropped.
RECURSIVE SplitWalk(_, _, _, _)
SplitWalk(text, i, cur, seps) ==
    IF i > Len(text) THEN <<cur>>
    ELSE IF text[i] \in seps /\ i > 1 /\ text[i - 1] \in Punct
    THEN <<cur>> \o SplitWalk(text, SkipRun(text, i, seps), <<>>, seps)
    ELSE SplitWalk(text, i + 1, Append(cur, text[i]), seps)

SplitSentences(text, seps) == SplitWalk(text, 1, <<>>, seps)

\* [s.strip() for s in sentences if s.strip()]
StripNonEmpty(parts) ==
    LET stripped == [k \in 1..Len(parts) |-> Strip(parts[k])]
    IN SelectSeq(stripped, LAMBDA x : x # <<>>)

Dot(v, w) == v[1] * w[1] + v[2] * w[2]

\* cosine_similarity(v, w) < thr. A zero vector makes the quotient 0/0 = nan,
\* and every comparison with nan is False. Otherwise dot / sqrt(|v|^2 |w|^2)
\* is compared with the fraction thr by squaring, signs kept. The comparison
\* is exact: the rounding of float64 at sim = thr is not modelled.
CosineBelow(v, w, thr) ==
    LET nn == Dot(v, v) * Dot(w, w)
        l == Dot(v, w) * thr[2]
        r == thr[1]
    IN IF nn = 0 THEN FALSE
       ELSE IF l < 0 /\ r >= 0 THEN TRUE
       ELSE IF l >= 0 /\ r <= 0 THEN FALSE
       ELSE IF l >= 0 THEN l * l < r * r * nn
       ELSE l * l > r * r * nn

\* cosine_similarity(v, w) >= thr: False when the quotient is nan, otherwise
\* the opposite of CosineBelow.
CosineAtLeast(v, w, thr) ==
    IF Dot(v, v) * Dot(w, w) = 0 THEN FALSE ELSE ~CosineBelow(v, w, thr)

\* Mutant of TooLong: the cap is tested on the sentence alone.
TooLongSentenceOnly(current_chunk, sentence, max_tokens) ==
    Len(sentence) > max_tokens

\* len(candidate) > max_tokens, candidate = current_chunk + " " + sentence
TooLong(current_chunk, sentence, max_tokens) ==
    Len(current_chunk \o <<" ">> \o sentence) > max_tokens

\* Mutant of Candidate: the sentence replaces the running chunk.
CandidateReplace(current_chunk, sentence) == sentence

\* candidate = current_chunk + " " + sentences[i]
Candidate(current_chunk, sentence) == current_chunk \o <<" ">> \o sentence

\* The loop of semantic_chunk_text from sentence i on. A chunk is recorded
\* with the positions of its first and last sentence.
RECURSIVE ChunkWalk(_, _, _, _, _, _, _)
ChunkWalk(sentences, embeddings, i, current_chunk, first, max_tokens, thr) ==
    IF i > Len(sentences)
    THEN IF Strip(current_chunk) # <<>>
         THEN <<[text |-> Strip(current_chunk), first |-> first, last |-> i - 1]>>
         ELSE <<>>
    ELSE IF CosineBelow(embeddings[i - 1], embeddings[i], thr)
            \/ TooLong(current_chunk, sentences[i], max_tokens)
    THEN <<[text |-> Strip(current_chunk), first |-> first, last |-> i - 1]>>
         \o ChunkWalk(sentences, embeddings, i + 1, sentences[i], i, max_tokens, thr)
    ELSE ChunkWalk(sentences, embeddings, i + 1,
                   Candidate(current_chunk, sentences[i]), first, max_tokens, thr)

\* The sentences semantic_chunk_text works on.
ChunkSentences(text) == StripNonEmpty(SplitSentences(text, {" "}))

\* The embedding provider's batch call: one vector per text, or a failure.
EmbeddingVectors == {<<1, 0>>, <<0, 1>>, <<0, 0>>}

generate_embeddings_batch(texts) ==
    {[ok |-> TRUE, vectors |-> e] : e \in [1..Len(texts) -> EmbeddingVectors]}
        \cup {[ok |-> FALSE, vectors |-> <<>>]}

\* Mutant of semantic_chunk_text: a failed provider call is caught and every
\* sentence is returned as a chunk of its own.
semantic_chunk_text_fallback(in, provider) ==
    LET sentences == ChunkSentences(in.text)
    IN IF sentences = <<>>
       THEN [status |-> "ok", chunks |-> <<>>, spans |-> <<>>, sentences |-> <<>>,
             embeddings |-> <<>>, provider |-> "not called"]
       ELSE IF ~provider.ok
       THEN [status |-> "ok", chunks |-> sentences,
             spans |-> [k \in 1..Len(sentences) |-> <<k, k>>], sentences |-> sentences,
             embeddings |-> <<>>, provider |-> "failed"]
       ELSE LET walk == ChunkWalk(sentences, provider.vectors, 2, sentences[1], 1,
                                  in.max_tokens, in.similarity_threshold)
            IN [status     |-> "ok",
                chunks     |-> [k \in 1..Len(walk) |-> walk[k].text],
                spans      |-> [k \in 1..Len(walk) |-> <<walk[k].first, walk[k].last>>],
                sentences  |-> sentences,
                embeddings |-> provider.vectors,
                provider   |-> "answered"]

\* semantic_chunk_text(text, max_tokens, similarity_threshold), given what the
\* provider answers when it is called. The call is awaited outside any try
\* block: its exception is the exception of semantic_chunk_text.
semantic_chunk_text(in, provider) ==
    LET sentences == ChunkSentences(in.text)
    IN IF sentences = <<>>
       THEN [status |-> "ok", chunks |-> <<>>, spans |-> <<>>, sentences |-> <<>>,
             embeddings |-> <<>>, provider |-> "not called"]
       ELSE IF ~provider.ok
       THEN [status |-> "error", chunks |-> <<>>, spans |-> <<>>, sentences |-> sentences,
             embeddings |-> <<>>, provider |-> "failed"]
       ELSE LET walk == ChunkWalk(sentences, provider.vectors, 2, sentences[1], 1,
                                  in.max_tokens, in.similarity_threshold)
            IN [status     |-> "ok",
                chunks     |-> [k \in 1..Len(walk) |-> walk[k].text],
                spans      |-> [k \in 1..Len(walk) |-> <<walk[k].first, walk[k].last>>],
                sentences  |-> sentences,
                embeddings |-> provider.vectors,
                provider   |-> "answered"]

\* One call of semantic_chunk_text.
SemanticChunk ==
    /\ chunk_ret.status = "none"
    /\ \E provider \in generate_embeddings_batch(ChunkSentences(chunk_in.text)) :
          chunk_ret' = semantic_chunk_text(chunk_in, provider)
    /\ UNCHANGED <<chunk_in, asmVars, parseVars, rerankVars,
                   searchVars, optVars, splitVars, callVars, kbVars>>

\* Longest text handed to semantic_chunk_text.
MaxTextLen == 7

ChunkAlphabet == {"a", ".", " "}

\* semantic_chunk_text's default similarity_threshold, 0.75.
DefaultChunkThreshold == <<3, 4>>

ChunkInputs ==
    [text : SeqsUpTo(ChunkAlphabet, MaxTextLen), max_tokens : {2, 5},
     similarity_threshold : {<<0, 1>>, DefaultChunkThreshold}]

(***************************************************************************)
(* UniversalPDFParser                                                      *)
(* A document is the sequence of its lines in reading order, with page    *)
(* breaks between the pages. A line has one span (rounded size, font,     *)
(* text); hf says that its block intersects a detected header/footer      *)
(* region. A page whose text is blank is a page with no extractable text. *)
(***************************************************************************)
\* re.sub(r'\s+', ' ', text): every run of whitespace becomes one space.
RECURSIVE CollapseWalk(_, _)
CollapseWalk(text, i) ==
    IF i > Len(text) THEN <<>>
    ELSE IF text[i] \in Whitespace
    THEN <<" ">> \o CollapseWalk(text, SkipRun(text, i, Whitespace))
    ELSE <<text[i]>> \o CollapseWalk(text, i + 1)

\* _normalize_text
normalize_text(text) == Strip(CollapseWalk(text, 1))

\* The chunk dict _split_text_into_chunks appends. section_path is kept as
\* the list that " > ".join renders.
ParserChunk(current_chunk_text, section_path, chunk_idx) ==
    [text |-> normalize_text(current_chunk_text),
     section_path |-> section_path,
     chunk_index |-> chunk_idx]

\* The loop of _split_text_into_chunks over the sentences.
RECURSIVE SplitChunksWalk(_, _, _, _, _)
SplitChunksWalk(sentences, current_chunk_text, chunk_idx, section_path, cap) ==
    IF sentences = <<>>
    THEN IF Strip(current_chunk_text) # <<>>
         THEN <<ParserChunk(current_chunk_text, section_path, chunk_idx)>>
         ELSE <<>>
    ELSE LET sentence == Head(sentences)
         IN IF Len(current_chunk_text) + Len(sentence) <= cap
            THEN SplitChunksWalk(Tail(sentences), current_chunk_text \o <<" ">> \o sentence,
                                 chunk_idx, section_path, cap)
            ELSE IF Strip(current_chunk_text) # <<>>
            THEN <<ParserChunk(current_chunk_text, section_path, chunk_idx)>>
                 \o SplitChunksWalk(Tail(sentences), sentence, chunk_idx + 1, section_path, cap)
            ELSE SplitChunksWalk(Tail(sentences), sentence, chunk_idx, section_path, cap)

\* _split_text_into_chunks(text, ..., section_path, start_index)
split_text_into_chunks(text, section_path, start_index, cap) ==
    IF text = <<>> THEN <<>>
    ELSE SplitChunksWalk(SplitSentences(text, Whitespace), <<>>, start_index,
                         section_path, cap)

TextLines(document) == SelectSeq(document, LAMBDA it : it.kind = "line")

\* styles[style] += len(s["text"]), styles in order of first appearance.
RECURSIVE StyleCounts(_, _)
StyleCounts(lines, styles) ==
    IF lines = <<>> THEN styles
    ELSE LET l == Head(lines)
             st == <<l.size, l.font>>
         IN IF \E k \in 1..Len(styles) : styles[k].style = st
            THEN LET k == CHOOSE k \in 1..Len(styles) : styles[k].style = st
                 IN StyleCounts(Tail(lines), [styles EXCEPT ![k].count = @ + Len(l.text)])
            ELSE StyleCounts(Tail(lines),
                             Append(styles, [style |-> st, count |-> Len(l.text)]))

\* sorted(styles.items(), key=count, reverse=True)[0][0][0]: the size of the
\* first style, in dict order, with the highest count; 0.0 without styles.
BodyStyleSize(styles) ==
    IF styles = <<>> THEN 0
    ELSE LET k == CHOOSE k \in 1..Len(styles) :
                    /\ \A j \in 1..Len(styles) : styles[j].count <= styles[k].count
                    /\ \A j \in 1..(k - 1) : styles[j].count < styles[k].count
         IN styles[k].style[1]

\* sorted(heading styles, key=size, reverse=True): stable, descending.
RECURSIVE InsertBySizeDesc(_, _)
InsertBySizeDesc(sorted, x) ==
    IF sorted = <<>> THEN <<x>>
    ELSE IF x[1] <= sorted[Len(sorted)][1] THEN Append(sorted, x)
    ELSE Append(InsertBySizeDesc(SubSeq(sorted, 1, Len(sorted) - 1), x), sorted[Len(sorted)])

RECURSIVE SortBySizeFold(_, _)
SortBySizeFold(styles, acc) ==
    IF styles = <<>> THEN acc
    ELSE SortBySizeFold(Tail(styles), InsertBySizeDesc(acc, Head(styles)))

\* _analyze_font_styles: (heading_styles, body_style_size)
analyze_font_styles(document) ==
    LET styles == StyleCounts(TextLines(document), <<>>)
        body == BodyStyleSize(styles)
        larger == SelectSeq([k \in 1..Len(styles) |-> styles[k].style],
                            LAMBDA st : st[1] > body)
    IN [heading_styles |-> SortBySizeFold(larger, <<>>), body_style_size |-> body]

\* next(i for i, s in enumerate(heading_styles) if s[0] == line_size), or
\* len(heading_styles): positions count from 0.
HeadingLevel(heading_styles, line_size) ==
    IF \E k \in 1..Len(heading_styles) : heading_styles[k][1] = line_size
    THEN (CHOOSE k \in 1..Len(heading_styles) :
             /\ heading_styles[k][1] = line_size
             /\ \A j \in 1..(k - 1) : heading_styles[j][1] # line_size) - 1
    ELSE Len(heading_styles)

\* Mutant of Truncate: the slice keeps one entry more.
TruncateOneMore(section_path, level) ==
    SubSeq(section_path, 1, IF level + 1 < Len(section_path) THEN level + 1 ELSE Len(section_path))

\* section_path[:heading_level]
Truncate(section_path, level) ==
    SubSeq(section_path, 1, IF level < Len(section_path) THEN level ELSE Len(section_path))

\* Mutant of AdvanceChunkIndex: the index advances by one per flush.
AdvanceChunkIndexByOne(chunk_index, new_chunks) == chunk_index + 1

\* chunk_index += len(new_chunks)
AdvanceChunkIndex(chunk_index, new_chunks) == chunk_index + Len(new_chunks)

\* Mutant of AccumulateLine: "=" written for "+=".
AccumulateLineOverwrite(current_section_text, line_text) == <<" ">> \o line_text

\* current_section_text += " " + line_text
AccumulateLine(current_section_text, line_text) ==
    current_section_text \o <<" ">> \o line_text

\* One line of a text page in the loop of _parse_with_styles.
ParseLine(st, l, styles, cap) ==
    IF l.hf \/ Strip(l.text) = <<>> THEN st
    ELSE IF l.size > styles.body_style_size
    THEN LET new_chunks ==
                 IF Strip(st.current_section_text) # <<>>
                 THEN split_text_into_chunks(st.current_section_text, st.section_path,
                                             st.chunk_index, cap)
                 ELSE <<>>
             level == HeadingLevel(styles.heading_styles, l.size)
         IN [st EXCEPT !.chunks = @ \o new_chunks,
                       !.chunk_index = IF Strip(st.current_section_text) # <<>>
                                       THEN AdvanceChunkIndex(@, new_chunks) ELSE @,
                       !.current_section_text = <<>>,
                       !.section_path = Append(Truncate(@, level),
                                               [text |-> normalize_text(l.text),
                                                size |-> l.size])]
    ELSE [st EXCEPT !.current_section_text = AccumulateLine(@, l.text)]

\* The pages of a document: its lines, cut at the page breaks.
RECURSIVE PagesWalk(_, _)
PagesWalk(items, page) ==
    IF items = <<>> THEN <<page>>
    ELSE IF Head(items).kind = "pagebreak" THEN <<page>> \o PagesWalk(Tail(items), <<>>)
    ELSE PagesWalk(Tail(items), Append(page, Head(items)))

Pages(document) == PagesWalk(document, <<>>)

\* not page.get_text().strip()
NoExtractableText(page) ==
    \A k \in 1..Len(page) : Strip(page[k].text) = <<>>

RECURSIVE ParseLines(_, _, _, _)
ParseLines(lines, st, styles, cap) ==
    IF lines = <<>> THEN st
    ELSE ParseLines(Tail(lines), ParseLine(st, Head(lines), styles, cap), styles, cap)

\* The page loop of _parse_with_styles. A page without text gets one block
\* that has "lines" but no "bbox", and b["bbox"] raises KeyError.
RECURSIVE ParseWalk(_, _, _, _)
ParseWalk(pages, st, styles, cap) ==
    IF pages = <<>> THEN st
    ELSE IF NoExtractableText(Head(pages)) THEN [st EXCEPT !.status = "error"]
    ELSE ParseWalk(Tail(pages), ParseLines(Head(pages), st, styles, cap), styles, cap)

\* _parse_with_styles(doc, file_path)
parse_with_styles(document, cap) ==
    LET styles == analyze_font_styles(document)
        st == ParseWalk(Pages(document),
                        [status |-> "ok", chunks |-> <<>>, current_section_text |-> <<>>,
                         section_path |-> <<>>, chunk_index |-> 0],
                        styles, cap)
    IN IF st.status = "error" THEN [status |-> "error", chunks |-> <<>>]
       ELSE [status |-> "ok",
             chunks |-> IF Strip(st.current_section_text) # <<>>
                        THEN st.chunks \o split_text_into_chunks(st.current_section_text,
                                               st.section_path, st.chunk_index, cap)
                        ELSE st.chunks]

\* parse(file_path): open, parse, close; an exception skips doc.close().
Parse ==
    /\ parse_ret.status = "none"
    /\ LET r == parse_with_styles(doc, parser.chunk_size_chars)
       IN parse_ret' = [status |-> r.status, chunks |-> r.chunks,
                        closed |-> (r.status = "ok")]
    /\ UNCHANGED <<parser, doc, asmVars, chunkVars, rerankVars,
                   searchVars, optVars, splitVars, callVars, kbVars>>

\* Most items (lines and page breaks) of a document.
MaxItems == 3

\* structured_pdf_parser's chunk_size_chars.
DefaultChunkSize == 4000

DocLines ==
    [kind : {"line"}, size : {10, 12, 14}, font : {"F", "G"},
     text : {<<"a", ".", " ", "b">>, <<"c">>}, hf : {FALSE}]

DocItems ==
    DocLines
      \cup {[kind |-> "line", size |-> 10, font |-> "F", text |-> <<"h">>, hf |-> TRUE],
            [kind |-> "line", size |-> 12, font |-> "F", text |-> <<" ">>, hf |-> FALSE],
            [kind |-> "pagebreak", size |-> 0, font |-> "", text |-> <<>>, hf |-> FALSE]}

ParserConfigs == [chunk_size_chars : {3, DefaultChunkSize}]

(***************************************************************************)
(* BM25Reranker                                                            *)
(***************************************************************************)
\* doc.lower().split(): the tokens of a text
Tokenize(text) == Words(text)

\* Values a BM25 score takes in the model (Okapi scores can be negative: a
\* negative idf is replaced by epsilon * average_idf, itself negative when
\* most terms occur in more than half of the documents).
ScoreValues == {-1, 0, 1, 2}

\* BM25Okapi(tokenized_corpus), from rank_bm25. Its constructor computes
\* avgdl = num_doc / corpus_size and average_idf = idf_sum / len(idf): an empty
\* corpus, and a corpus without any token, raise ZeroDivisionError. The index
\* answers get_scores(tokenized_query) with one score per corpus document; it
\* is a function of the corpus and the query alone, and the set holds one
\* index for every table of scores the query can have.
BM25Okapi(tokenized_corpus) ==
    IF Len(tokenized_corpus) = 0
       \/ \A k \in 1..Len(tokenized_corpus) : tokenized_corpus[k] = <<>>
    THEN {[status |-> "error", scores |-> <<>>]}
    ELSE {[status |-> "built", scores |-> t] :
             t \in [1..Len(tokenized_corpus) -> ScoreValues]}

\* BM25Reranker(corpus)
BuildReranker ==
    /\ bm25.status = "none"
    /\ bm25' \in BM25Okapi([k \in 1..Len(corpus) |-> Tokenize(corpus[k])])
    /\ UNCHANGED <<corpus, docs, rr_ret, rr_prev, asmVars, chunkVars, parseVars,
                   searchVars, optVars, splitVars, callVars, kbVars>>

\* _set_score_on_doc: a dict gets payload["bm25_score"], an object gets it in
\* its payload dict or as an attribute; a dict whose "payload" is None takes
\* neither (both attempts raise and are swallowed).
set_score_on_doc(d, score) ==
    IF d.kind = "dict_payload_none" THEN d
    ELSE [d EXCEPT !.bm25_score = <<score>>]

\* _get_score_from_doc: the attached score, 0.0 when there is none.
get_score_from_doc(d) ==
    IF d.kind = "dict_payload_none" THEN 0
    ELSE IF d.bm25_score = <<>> THEN 0
    ELSE d.bm25_score[1]

\* float(scores[i]) if i < len(scores) else 0.0
ScoreAt(scores, i) == IF i <= Len(scores) THEN scores[i] ELSE 0

\* sorted(docs, key=_get_score_from_doc, reverse=True): stable, descending.
RECURSIVE InsertByScoreDesc(_, _)
InsertByScoreDesc(sorted, x) ==
    IF sorted = <<>> THEN <<x>>
    ELSE IF get_score_from_doc(x) <= get_score_from_doc(sorted[Len(sorted)])
    THEN Append(sorted, x)
    ELSE Append(InsertByScoreDesc(SubSeq(sorted, 1, Len(sorted) - 1), x),
                sorted[Len(sorted)])

RECURSIVE SortByScoreFold(_, _)
SortByScoreFold(ds, acc) ==
    IF ds = <<>> THEN acc
    ELSE SortByScoreFold(Tail(ds), InsertByScoreDesc(acc, Head(ds)))

\* Mutant of SortByScoreDesc: ascending order.
SortByScoreAsc(ds) ==
    LET desc == SortByScoreFold(ds, <<>>)
    IN [k \in 1..Len(desc) |-> desc[Len(desc) + 1 - k]]

SortByScoreDesc(ds) == SortByScoreFold(ds, <<>>)

\* The loop of rerank: every candidate is tagged with its score.
TagDocs(ds, scores) == [i \in 1..Len(ds) |-> set_score_on_doc(ds[i], ScoreAt(scores, i))]

\* Mutant of DocsAfterRerank: docs.sort(...) in place of sorted(docs, ...).
DocsSortedInPlace(ds, scores) == SortByScoreDesc(TagDocs(ds, scores))

\* The caller's list after rerank: its elements are tagged, its order is kept.
DocsAfterRerank(ds, scores) == TagDocs(ds, scores)

\* Most rerank calls on one reranker.
MaxRerankCalls == 2

\* rerank(query, docs) on the built reranker, for the query of the index.
Rerank ==
    /\ bm25.status = "built"
    /\ rr_ret.calls < MaxRerankCalls
    /\ LET tagged == TagDocs(docs, bm25.scores)
       IN /\ docs' = DocsAfterRerank(docs, bm25.scores)
          /\ rr_ret' = [status |-> "ok", calls |-> rr_ret.calls + 1,
                        input |-> docs,
                        sorted_docs |-> SortByScoreDesc(tagged)]
    /\ rr_prev' = rr_ret
    /\ UNCHANGED <<corpus, bm25, asmVars, chunkVars, parseVars,
                   searchVars, optVars, splitVars, callVars, kbVars>>

\* Longest corpus and longest candidate list.
MaxCorpus == 2
MaxDocs == 3

CorpusTexts == {<<>>, <<"a", " ", "b">>}

DocKinds == {"dict", "object", "dict_payload_none"}

\* Candidate lists: the k-th candidate has id k and no score yet.
DocLists ==
    UNION {{[k \in 1..n |-> [id |-> k, kind |-> kinds[k], bm25_score |-> <<>>]] :
               kinds \in [1..n -> DocKinds]} : n \in 0..MaxDocs}

(***************************************************************************)
(* Inputs of the assembler                                                 *)
(***************************************************************************)
\* Longest candidate list handed to assemble.
MaxCands == 2

\* Longest candidate list of the one-section stitching runs.
MaxStitchCands == 5

\* QueryOptimizer.__init__ default top_k.
DefaultTopK == 5

\* ContextAssembler.__init__ defaults.
DefaultMaxChunks == 6
DefaultNeighborGap == 1
DefaultThreshold == <<4, 5>>

\* Candidate texts: empty, whitespace only, and two near-duplicates whose
\* ratio depends on the order of comparison (5/6 one way, 1/2 the other).
AsmContents ==
    { <<>>, <<" ">>,
      <<"a", "a", "a", "b", "a", "a">>,
      <<"b", "a", "a", "a", "a", "a">> }

AsmHits ==
    [section_path : {"", "A"}, source : {"d"}, content : AsmContents,
     chunk_index : {<<0>>, <<1>>}, score : {1, 2}]

AsmConfigs ==
    [max_chunks : {-1, 0, 1, 2}, similarity_threshold : {DefaultThreshold},
     neighbor_gap : {DefaultNeighborGap}]

StitchHits ==
    [section_path : {"A"}, source : {"d"}, content : {<<"a">>},
     chunk_index : {<<>>, <<0>>, <<1>>, <<2>>, <<5>>, <<6>>}, score : {1}]

StitchConfigs ==
    [max_chunks : {DefaultMaxChunks}, similarity_threshold : {DefaultThreshold},
     neighbor_gap : {0, DefaultNeighborGap}]

AsmIdle ==
    /\ assembler = [max_chunks |-> DefaultMaxChunks,
                    similarity_threshold |-> DefaultThreshold,
                    neighbor_gap |-> DefaultNeighborGap]
    /\ search_results = <<>>
    /\ asm_ret = NoCall

ChunkIdle == chunk_in = NoCall /\ chunk_ret = NoCall

ParseIdle ==
    /\ parser = [chunk_size_chars |-> DefaultChunkSize]
    /\ doc = <<>>
    /\ parse_ret = NoCall

RerankIdle ==
    /\ corpus = <<>> /\ bm25 = NoCall /\ docs = <<>>
    /\ rr_ret = [status |-> "none", calls |-> 0]
    /\ rr_prev = [status |-> "none", calls |-> 0]

SearchIdle == search_in = NoCall /\ search_ret = NoCall

OptIdle == optimizer = [top_k |-> DefaultTopK] /\ query = <<>> /\ opt_ret = NoCall

SplitIdle == split_in = NoCall /\ split_ret = NoCall

CallIdle ==
    /\ call_kind = "none" /\ call_in = <<>> /\ frame = <<>> /\ call_ret = <<>>

KbIdle == kb_in = NoCall /\ kb_ret = NoCall

\* assemble on any candidate list and configuration.
InitAssemble ==
    /\ assembler \in AsmConfigs
    /\ search_results \in SeqsUpTo(AsmHits, MaxCands)
    /\ asm_ret = NoCall
    /\ ChunkIdle /\ ParseIdle /\ RerankIdle
    /\ SearchIdle /\ OptIdle /\ SplitIdle /\ CallIdle /\ KbIdle

NextAssemble == Assemble

SpecAssemble == InitAssemble /\ [][NextAssemble]_vars

\* assemble on the candidates of one section.
InitStitch ==
    /\ assembler \in StitchConfigs
    /\ search_results \in SeqsUpTo(StitchHits, MaxStitchCands)
    /\ asm_ret = NoCall
    /\ ChunkIdle /\ ParseIdle /\ RerankIdle
    /\ SearchIdle /\ OptIdle /\ SplitIdle /\ CallIdle /\ KbIdle

SpecStitch == InitStitch /\ [][NextAssemble]_vars

(***************************************************************************)
(* Claims about the assembler                                              *)
(***************************************************************************)
AsmDone == asm_ret.status = "ok"

\* C1: with max_chunks >= 0 the context returned by assemble holds at most
\* max_chunks blocks.
C1_AtMostMaxChunks ==
    (AsmDone /\ assembler.max_chunks >= 0)
        => Len(asm_ret.context) <= assembler.max_chunks

\* C1 witness: the bound cuts: more blocks survive deduplication than
\* max_chunks, and exactly max_chunks >= 1 are rendered.
C1_Witness ==
    /\ AsmDone
    /\ assembler.max_chunks >= 1
    /\ Len(asm_ret.deduped) > assembler.max_chunks
    /\ Len(asm_ret.context) = assembler.max_chunks

\* C2 (as claimed): every pair of distinct emitted blocks, compared in either
\* order, has a similarity ratio that does not exceed similarity_threshold.
C2_NoSimilarPairEmitted ==
    AsmDone =>
        \A i, j \in 1..Len(asm_ret.selected) :
            i # j => ~FracGT(Ratio(asm_ret.selected[i].text, asm_ret.selected[j].text),
                             assembler.similarity_threshold)

\* C3: an empty candidate list, or one whose candidates all have empty
\* content, yields the empty context: no block and the empty string.
C3_EmptyInputEmptyContext ==
    (AsmDone /\ \A k \in 1..Len(search_results) : search_results[k].content = <<>>)
        => asm_ret.context = <<>> /\ asm_ret.selected = <<>>

\* C3 witness: assemble has run on a non-empty list of candidates that all
\* have empty content.
C3_Witness ==
    /\ AsmDone
    /\ Len(search_results) >= 2
    /\ \A k \in 1..Len(search_results) : search_results[k].content = <<>>
    /\ asm_ret.context = <<>>

\* The chunk_index lists of the stitched blocks, in output order.
StitchedIndices == [k \in 1..Len(asm_ret.stitched) |-> asm_ret.stitched[k].chunk_indices]

AllIntegerIndices == \A k \in 1..Len(search_results) : search_results[k].chunk_index # <<>>

NonDecreasing(s) == \A k \in 1..(Len(s) - 1) : s[k] <= s[k + 1]

\* s and t hold the same values the same number of times
SameBag(s, t) ==
    /\ Len(s) = Len(t)
    /\ \A v \in Range(s) \cup Range(t) :
          Cardinality({k \in 1..Len(s) : s[k] = v}) = Cardinality({k \in 1..Len(t) : t[k] = v})

\* C4: in one section whose candidates all carry integer indices, the blocks
\* are the sorted indices cut exactly where two consecutive indices differ by
\* more than neighbor_gap; [0,1,2,5,6] with gap 1 gives {0,1,2} and {5,6}.
C4_StitchByGap ==
    (AsmDone /\ AllIntegerIndices) =>
        LET idx == StitchedIndices
            flat == Concat(idx)
        IN /\ SameBag(flat, [k \in 1..Len(search_results) |-> search_results[k].chunk_index[1]])
           /\ NonDecreasing(flat)
           /\ \A b \in 1..Len(idx) :
                 /\ idx[b] # <<>>
                 /\ \A k \in 1..(Len(idx[b]) - 1) :
                       idx[b][k + 1] - idx[b][k] <= assembler.neighbor_gap
           /\ \A b \in 1..(Len(idx) - 1) :
                 idx[b + 1][1] - idx[b][Len(idx[b])] > assembler.neighbor_gap
           /\ (SameBag(flat, <<0, 1, 2, 5, 6>>) /\ assembler.neighbor_gap = 1)
                 => idx = << <<0, 1, 2>>, <<5, 6>> >>

\* C4 witness: the indices 0,1,2,5,6 arrive unsorted, gap 1, and two blocks
\* come out.
C4_Witness ==
    /\ AsmDone
    /\ assembler.neighbor_gap = 1
    /\ [k \in 1..Len(search_results) |-> search_results[k].chunk_index] =
           << <<5>>, <<0>>, <<6>>, <<2>>, <<1>> >>
    /\ StitchedIndices = << <<0, 1, 2>>, <<5, 6>> >>

(***************************************************************************)
(* The semantic chunker                                                    *)
(***************************************************************************)
InitChunk ==
    /\ chunk_in \in ChunkInputs
    /\ chunk_ret = NoCall
    /\ AsmIdle /\ ParseIdle /\ RerankIdle
    /\ SearchIdle /\ OptIdle /\ SplitIdle /\ CallIdle /\ KbIdle

NextChunk == SemanticChunk

SpecChunk == InitChunk /\ [][NextChunk]_vars

ChunkDone == chunk_ret.status = "ok"

\* C5: every chunk semantic_chunk_text returns has length <= max_tokens,
\* except a chunk made of one single sentence that alone is longer.
C5_ChunkWithinCap ==
    ChunkDone =>
        \A k \in 1..Len(chunk_ret.chunks) :
            \/ Len(chunk_ret.chunks[k]) <= chunk_in.max_tokens
            \/ /\ chunk_ret.spans[k][1] = chunk_ret.spans[k][2]
               /\ chunk_ret.chunks[k] = chunk_ret.sentences[chunk_ret.spans[k][1]]
               /\ Len(chunk_ret.sentences[chunk_ret.spans[k][1]]) > chunk_in.max_tokens

\* C5 witness: a chunk of several sentences fills the cap exactly and the
\* next sentence, although similar, starts a new chunk because of the cap.
C5_Witness ==
    /\ ChunkDone
    /\ \E k \in 1..(Len(chunk_ret.chunks) - 1) :
          /\ chunk_ret.spans[k][2] > chunk_ret.spans[k][1]
          /\ Len(chunk_ret.chunks[k]) = chunk_in.max_tokens
          /\ ~CosineBelow(chunk_ret.embeddings[chunk_ret.spans[k][2]],
                          chunk_ret.embeddings[chunk_ret.spans[k][2] + 1],
                          chunk_in.similarity_threshold)

(***************************************************************************)
(* The structured parser                                                   *)
(***************************************************************************)
InitParse ==
    /\ parser \in ParserConfigs
    /\ doc \in SeqsUpTo(DocItems, MaxItems)
    /\ parse_ret = NoCall
    /\ AsmIdle /\ ChunkIdle /\ RerankIdle
    /\ SearchIdle /\ OptIdle /\ SplitIdle /\ CallIdle /\ KbIdle

NextParse == Parse

SpecParse == InitParse /\ [][NextParse]_vars

ParseDone == parse_ret.status = "ok"

\* C6: the i-th chunk the parser returns has chunk_index i, from 0: the
\* indices are unique, strictly increasing and contiguous.
C6_ChunkIndexContiguous ==
    ParseDone => \A k \in 1..Len(parse_ret.chunks) : parse_ret.chunks[k].chunk_index = k - 1

\* C6 witness: a section flushed at a heading gave two chunks, and a later
\* section gave another.
C6_Witness ==
    /\ ParseDone
    /\ Len(parse_ret.chunks) >= 3
    /\ parse_ret.chunks[1].section_path = parse_ret.chunks[2].section_path
    /\ parse_ret.chunks[2].section_path # parse_ret.chunks[3].section_path

\* The chunk texts in chunk_index order, joined by a space.
ChunkTexts == Join([k \in 1..Len(parse_ret.chunks) |-> parse_ret.chunks[k].text], <<" ">>)

LineTexts(lines) == Join([k \in 1..Len(lines) |-> lines[k].text], <<" ">>)

IsHeadingLine(l) == l.size > analyze_font_styles(doc).body_style_size

\* The lines the parser treats as body text: outside the header/footer
\* regions and not larger than the body font.
BodyLines == SelectSeq(TextLines(doc), LAMBDA l : ~l.hf /\ ~IsHeadingLine(l))

\* C7 (as claimed): the chunk texts in index order reproduce the document's
\* text modulo whitespace: no line is lost, none duplicated. The document's
\* text is read as what is left once the repeated header/footer blocks are
\* excluded.
C7_ReproducesDocumentText ==
    ParseDone =>
        Words(ChunkTexts) = Words(LineTexts(SelectSeq(TextLines(doc), LAMBDA l : ~l.hf)))

\* C7 (amended): the chunk texts in index order reproduce, modulo whitespace,
\* the text of the lines that are neither headings nor inside a header/footer
\* region; those lines are neither lost nor duplicated.
C7_ReproducesBodyText ==
    ParseDone => Words(ChunkTexts) = Words(LineTexts(BodyLines))

\* C7 witness: body text before and after a heading, and a header/footer
\* line, were parsed into at least two chunks.
C7_Witness ==
    /\ ParseDone
    /\ Len(parse_ret.chunks) >= 2
    /\ \E i, j, k \in 1..Len(doc) :
          /\ i < j /\ j < k
          /\ doc[i].kind = "line" /\ ~doc[i].hf /\ ~IsHeadingLine(doc[i])
          /\ doc[j].kind = "line" /\ ~doc[j].hf /\ IsHeadingLine(doc[j])
          /\ doc[k].kind = "line" /\ ~doc[k].hf /\ ~IsHeadingLine(doc[k])
          /\ Strip(doc[k].text) # <<>>

(***************************************************************************)
(* The reranker                                                            *)
(***************************************************************************)
InitRerank ==
    /\ corpus \in SeqsUpTo(CorpusTexts, MaxCorpus)
    /\ docs \in DocLists
    /\ bm25 = NoCall
    /\ rr_ret = [status |-> "none", calls |-> 0]
    /\ rr_prev = [status |-> "none", calls |-> 0]
    /\ AsmIdle /\ ChunkIdle /\ ParseIdle
    /\ SearchIdle /\ OptIdle /\ SplitIdle /\ CallIdle /\ KbIdle

NextRerank == BuildReranker \/ Rerank

SpecRerank == InitRerank /\ [][NextRerank]_vars

Ids(ds) == [k \in 1..Len(ds) |-> ds[k].id]

Keys(ds) == [k \in 1..Len(ds) |-> get_score_from_doc(ds[k])]

\* C8: a second rerank of the same query over the same candidates attaches
\* the scores of the first and returns the order of the first.
C8_RerankTwiceSame ==
    rr_ret.calls >= 2 =>
        /\ Ids(rr_ret.sorted_docs) = Ids(rr_prev.sorted_docs)
        /\ Keys(rr_ret.sorted_docs) = Keys(rr_prev.sorted_docs)
        /\ rr_ret.sorted_docs = rr_prev.sorted_docs

\* C8 witness: the second call has returned, and rerank reordered the
\* candidates.
C8_Witness ==
    /\ rr_ret.calls = 2
    /\ Len(docs) >= 2
    /\ Ids(rr_ret.sorted_docs) # Ids(rr_ret.input)

\* The position of the candidate with id x in ds.
PosOf(ds, x) == CHOOSE k \in 1..Len(ds) : ds[k].id = x

\* C9: rerank returns a permutation of its candidates, in non-increasing
\* order of the attached score, equal scores in input order, on every call.
C9_SortedStablePermutation ==
    rr_ret.status = "ok" =>
        LET out == rr_ret.sorted_docs
            in == rr_ret.input
        IN /\ Len(out) = Len(in)
           /\ \A k \in 1..Len(in) :
                 Cardinality({j \in 1..Len(out) : out[j].id = in[k].id}) = 1
           /\ \A k \in 1..(Len(out) - 1) :
                 get_score_from_doc(out[k]) >= get_score_from_doc(out[k + 1])
           /\ \A i, j \in 1..Len(out) :
                 (i < j /\ get_score_from_doc(out[i]) = get_score_from_doc(out[j]))
                     => PosOf(in, out[i].id) < PosOf(in, out[j].id)

\* C9 witness: three candidates, the first and the third with equal scores
\* and kept in input order, the second moved in front of them.
C9_Witness ==
    /\ rr_ret.status = "ok"
    /\ Len(rr_ret.sorted_docs) = 3
    /\ Ids(rr_ret.sorted_docs) = <<2, 1, 3>>
    /\ get_score_from_doc(rr_ret.sorted_docs[2]) = get_score_from_doc(rr_ret.sorted_docs[3])

\* C10 (as claimed): with an empty corpus, building the reranker raises no
\* error and rerank returns the candidates unchanged, in input order.
C10_EmptyCorpusNoOp ==
    corpus = <<>> =>
        /\ bm25.status # "error"
        /\ rr_ret.status = "ok" => rr_ret.sorted_docs = rr_ret.input

(***************************************************************************)
(* search_documents and the hybrid merge                                   *)
(* A search result is [id, score, via]: the chunk identity, the provider's *)
(* relevance score, and the provider it came from (its metadata).          *)
(***************************************************************************)
\* The position of identity x in the mapping, 0 when it is not a key.
KeyPos(mapping, x) ==
    IF \E k \in 1..Len(mapping) : mapping[k].id = x
    THEN CHOOSE k \in 1..Len(mapping) : mapping[k].id = x
    ELSE 0

\* mapping[r.id] = r for every r of results, in order: a new key goes last,
\* a known key keeps its place and takes the new entry.
RECURSIVE Overlay(_, _)
Overlay(mapping, results) ==
    IF results = <<>> THEN mapping
    ELSE LET r == Head(results)
             k == KeyPos(mapping, r.id)
         IN Overlay(IF k = 0 THEN Append(mapping, r) ELSE [mapping EXCEPT ![k] = r],
                    Tail(results))

\* Sorting the entries by their own score, descending, equal scores in
\* mapping order.
RECURSIVE InsertHitByScoreDesc(_, _)
InsertHitByScoreDesc(sorted, x) ==
    IF sorted = <<>> THEN <<x>>
    ELSE IF x.score <= sorted[Len(sorted)].score THEN Append(sorted, x)
    ELSE Append(InsertHitByScoreDesc(SubSeq(sorted, 1, Len(sorted) - 1), x),
                sorted[Len(sorted)])

RECURSIVE SortHitsFold(_, _)
SortHitsFold(hits, acc) ==
    IF hits = <<>> THEN acc
    ELSE SortHitsFold(Tail(hits), InsertHitByScoreDesc(acc, Head(hits)))

\* Truncation to top_k entries.
TopK(s, n) == SubSeq(s, 1, IF n < Len(s) THEN n ELSE Len(s))

\* merge_results(semantic_results, keyword_results, top_k): a mapping keyed by
\* chunk identity seeded from the vector-search list, overlaid with the
\* keyword-search entries, sorted by each entry's own score descending, cut
\* to top_k.
merge_results(semantic_results, keyword_results, top_k) ==
    LET mapping == Overlay(Overlay(<<>>, semantic_results), keyword_results)
    IN TopK(SortHitsFold(mapping, <<>>), top_k)

SearchError == [status |-> "error", results |-> <<>>]

\* Mutant of search_documents: hybrid mode returns both lists, unmerged.
search_documents_concat(in) ==
    IF in.mode = "semantic"
    THEN IF in.semantic.ok THEN [status |-> "ok", results |-> in.semantic.results]
         ELSE SearchError
    ELSE IF in.mode = "hybrid"
    THEN IF in.semantic.ok /\ in.keyword.ok
         THEN [status |-> "ok", results |-> in.semantic.results \o in.keyword.results]
         ELSE SearchError
    ELSE SearchError

\* search_documents(query, top_k) under settings.SEARCH_MODE, given what
\* semantic_search and keyword_search answer: a result list or an exception,
\* which search_documents lets through. Any other mode raises ValueError.
search_documents(in) ==
    IF in.mode = "semantic"
    THEN IF in.semantic.ok THEN [status |-> "ok", results |-> in.semantic.results]
         ELSE SearchError
    ELSE IF in.mode = "hybrid"
    THEN IF in.semantic.ok /\ in.keyword.ok
         THEN [status |-> "ok",
               results |-> merge_results(in.semantic.results, in.keyword.results, in.top_k)]
         ELSE SearchError
    ELSE SearchError

\* One call of search_documents.
SearchDocuments ==
    /\ search_ret.status = "none"
    /\ search_ret' = search_documents(search_in)
    /\ UNCHANGED <<search_in, asmVars, chunkVars, parseVars, rerankVars,
                   optVars, splitVars, callVars, kbVars>>

\* Longest list a search provider answers, and largest top_k.
MaxHits == 2
MaxTopK == 3

SearchHits(via) == [id : {1, 2}, score : {1, 2}, via : {via}]

\* A provider's answer: a list of results, or an exception.
ProviderAnswers(via) ==
    {[ok |-> TRUE, results |-> r] : r \in SeqsUpTo(SearchHits(via), MaxHits)}
        \cup {[ok |-> FALSE, results |-> <<>>]}

SearchInputs ==
    [mode : {"semantic", "hybrid", "other"}, top_k : 0..MaxTopK,
     semantic : ProviderAnswers("vector"), keyword : ProviderAnswers("keyword")]

InitSearch ==
    /\ search_in \in SearchInputs
    /\ search_ret = NoCall
    /\ AsmIdle /\ ChunkIdle /\ ParseIdle /\ RerankIdle
    /\ OptIdle /\ SplitIdle /\ CallIdle /\ KbIdle

NextSearch == SearchDocuments

SpecSearch == InitSearch /\ [][NextSearch]_vars

HybridDone == search_ret.status = "ok" /\ search_in.mode = "hybrid"

\* C11: in hybrid mode the list search_documents returns holds no two entries
\* with the same chunk identity and at most top_k entries.
C11_MergeNoDuplicatesWithinTopK ==
    HybridDone =>
        /\ Len(search_ret.results) <= search_in.top_k
        /\ \A i, j \in 1..Len(search_ret.results) :
              search_ret.results[i].id = search_ret.results[j].id => i = j

\* C11 witness: the two lists overlap, their union is larger than top_k, and
\* the merge returned top_k entries.
C11_Witness ==
    /\ HybridDone
    /\ search_in.top_k = 1
    /\ Len(search_ret.results) = 1
    /\ Len(search_in.semantic.results) = 2
    /\ Len(search_in.keyword.results) = 2
    /\ \E i, j \in 1..2 :
          search_in.semantic.results[i].id = search_in.keyword.results[j].id
    /\ \E i, j \in 1..2 :
          search_in.semantic.results[i].id # search_in.keyword.results[j].id

(***************************************************************************)
(* QueryOptimizer                                                          *)
(***************************************************************************)
\* str.lower() on the characters of the model.
Lower(c) == IF c = "A" THEN "a" ELSE IF c = "L" THEN "l" ELSE c

\* The characters [a-z0-9\s] that clean keeps.
Kept == {"a", "l"} \cup Whitespace

\* clean(query): query.lower().strip(), then re.sub(r"[^a-z0-9\s]", "", ...)
clean(q) ==
    LET lowered == Strip([k \in 1..Len(q) |-> Lower(q[k])])
    IN SelectSeq(lowered, LAMBDA c : c \in Kept)

\* stopwords.words("english"), the entries that the model's letters spell.
stop_words == {<<"a">>, <<"a", "l", "l">>}

\* [t for t in query.split() if t not in self.stop_words and len(t) > 2]
SurvivingTokens(q) ==
    SelectSeq(Words(q), LAMBDA t : t \notin stop_words /\ Len(t) > 2)

\* Values of the cosine similarity of a token to the query, as ranks.
SimValues == {1, 2}

\* similarities.sort(key=lambda x: x[1], reverse=True): stable, descending.
RECURSIVE InsertBySimDesc(_, _, _)
InsertBySimDesc(sorted, t, sim) ==
    IF sorted = <<>> THEN <<t>>
    ELSE IF sim[t] <= sim[sorted[Len(sorted)]] THEN Append(sorted, t)
    ELSE Append(InsertBySimDesc(SubSeq(sorted, 1, Len(sorted) - 1), t, sim),
                sorted[Len(sorted)])

RECURSIVE SortBySimFold(_, _, _)
SortBySimFold(tokens, acc, sim) ==
    IF tokens = <<>> THEN acc
    ELSE SortBySimFold(Tail(tokens), InsertBySimDesc(acc, Head(tokens), sim), sim)

\* Mutant of extract_keywords: no fallback to the raw tokens.
extract_keywords_no_fallback(self, q, sim) ==
    LET tokens == SurvivingTokens(q)
    IN IF tokens = <<>> THEN <<>>
       ELSE SlicePrefix(SortBySimFold(tokens, <<>>, sim), self.top_k)

\* extract_keywords(query), given the similarity the embedding model gives
\* every token (equal tokens have equal embeddings).
extract_keywords(self, q, sim) ==
    LET tokens == SurvivingTokens(q)
    IN IF tokens = <<>> THEN Words(q)
       ELSE SlicePrefix(SortBySimFold(tokens, <<>>, sim), self.top_k)

\* What the embedding model can answer for the tokens: a similarity for each,
\* or an exception.
Encodings(tokens) ==
    {[ok |-> TRUE, sim |-> f] : f \in [Range(tokens) -> SimValues]}
        \cup {[ok |-> FALSE, sim |-> <<>>]}

\* optimize(query)
optimize(self, q, enc) ==
    LET cleaned == clean(q)
        fallback == SurvivingTokens(cleaned) = <<>>
    IN IF ~fallback /\ ~enc.ok
       THEN [status |-> "error", cleaned |-> cleaned, fallback |-> fallback,
             keywords |-> <<>>, optimized_query |-> <<>>]
       ELSE LET keywords == extract_keywords(self, cleaned, enc.sim)
            IN [status |-> "ok", cleaned |-> cleaned, fallback |-> fallback,
                keywords |-> keywords,
                optimized_query |-> Join(keywords, <<" ">>)]

\* One call of optimize.
Optimize ==
    /\ opt_ret.status = "none"
    /\ \E enc \in Encodings(SurvivingTokens(clean(query))) :
          opt_ret' = optimize(optimizer, query, enc)
    /\ UNCHANGED <<optimizer, query, asmVars, chunkVars, parseVars, rerankVars,
                   searchVars, splitVars, callVars, kbVars>>

\* Most pieces of a query.
MaxQueryParts == 4

\* A query is put together from these pieces.
QueryPieces ==
    {<<"a", "a", "a">>, <<"a", "l", "l">>, <<"a">>, <<"A">>, <<"?">>, <<" ">>}

Queries == {Concat(ps) : ps \in SeqsUpTo(QueryPieces, MaxQueryParts)}

OptimizerConfigs == [top_k : {1, 2, DefaultTopK}]

InitOptimize ==
    /\ optimizer \in OptimizerConfigs
    /\ query \in Queries
    /\ opt_ret = NoCall
    /\ AsmIdle /\ ChunkIdle /\ ParseIdle /\ RerankIdle
    /\ SearchIdle /\ SplitIdle /\ CallIdle /\ KbIdle

NextOptimize == Optimize

SpecOptimize == InitOptimize /\ [][NextOptimize]_vars

OptDone == opt_ret.status = "ok"

\* C12: the keyword list of extract_keywords, which optimize joins, has at
\* most top_k entries and holds no token twice.
C12_KeywordsBoundedDistinct ==
    OptDone =>
        /\ Len(opt_ret.keywords) <= optimizer.top_k
        /\ \A i, j \in 1..Len(opt_ret.keywords) :
              opt_ret.keywords[i] = opt_ret.keywords[j] => i = j

\* C13 (as claimed): optimize returns a non-empty string for every query.
C13_NeverEmpty ==
    OptDone => opt_ret.optimized_query # <<>>

\* C13 (amended): when no token survives the filter the keywords are the raw
\* tokens of the cleaned query, and for every query whose cleaned form has a
\* token, with top_k >= 1, the returned string is non-empty.
C13_FallbackAndNonEmpty ==
    OptDone =>
        /\ SurvivingTokens(clean(query)) = <<>>
              => opt_ret.keywords = Words(clean(query))
        /\ (Words(clean(query)) # <<>> /\ optimizer.top_k >= 1)
              => opt_ret.optimized_query # <<>>

\* C13 witness: no token of the query survives the filter, and optimize
\* returned the raw tokens of the cleaned query.
C13_Witness ==
    /\ OptDone
    /\ opt_ret.fallback
    /\ Len(opt_ret.keywords) = 2
    /\ opt_ret.optimized_query = <<"a", "l", "l", " ", "a">>

(***************************************************************************)
(* The structured parser: pages without text, chunk caps, section paths    *)
(***************************************************************************)
ParseReturned == parse_ret.status # "none"

HasPageWithoutText == \E k \in 1..Len(Pages(doc)) : NoExtractableText(Pages(doc)[k])

\* C14 (as claimed): a page with no extractable text never makes parsing
\* fail; parse completes and returns chunks.
C14_PageWithoutTextNotFatal ==
    (ParseReturned /\ HasPageWithoutText) => parse_ret.status = "ok"

\* One call of _split_text_into_chunks on the text of a section.
SplitChunks ==
    /\ split_ret.status = "none"
    /\ split_ret' = [status |-> "ok",
                     chunks |-> split_text_into_chunks(split_in.text, <<>>, 0,
                                                       split_in.chunk_size_chars)]
    /\ UNCHANGED <<split_in, asmVars, chunkVars, parseVars, rerankVars,
                   searchVars, optVars, callVars, kbVars>>

\* Longest line text of a section.
MaxSplitLen == 6

\* current_section_text when it is flushed: " " + line_text for its lines,
\* not blank.
SectionTexts ==
    {<<" ">> \o t : t \in {u \in SeqsUpTo(ChunkAlphabet, MaxSplitLen) : Strip(u) # <<>>}}

SplitInputs == [text : SectionTexts, chunk_size_chars : {2, 3, DefaultChunkSize}]

InitSplit ==
    /\ split_in \in SplitInputs
    /\ split_ret = NoCall
    /\ AsmIdle /\ ChunkIdle /\ ParseIdle /\ RerankIdle
    /\ SearchIdle /\ OptIdle /\ CallIdle /\ KbIdle

NextSplit == SplitChunks

SpecSplit == InitSplit /\ [][NextSplit]_vars

SplitDone == split_ret.status = "ok"

\* The sentences of the text that are not blank.
SplitSentencesNonBlank ==
    SelectSeq(SplitSentences(split_in.text, Whitespace), LAMBDA x : Strip(x) # <<>>)

\* The elements of a set of numbers, ascending.
RECURSIVE Ascending(_)
Ascending(S) ==
    IF S = {} THEN <<>>
    ELSE LET m == CHOOSE x \in S : \A y \in S : x <= y
         IN <<m>> \o Ascending(S \ {m})

\* C15 (as claimed): every chunk of _split_text_into_chunks is a run of whole
\* consecutive sentences and is at most chunk_size_chars long, unless it is
\* one single sentence.
C15_WholeSentencesWithinCap ==
    SplitDone =>
        LET sents == SplitSentencesNonBlank
            n == Len(sents)
            chunks == split_ret.chunks
        IN \E cuts \in SUBSET (1..(n - 1)) :
              LET ends == Ascending(cuts \cup {n})
                  first(k) == IF k = 1 THEN 1 ELSE ends[k - 1] + 1
              IN /\ Len(chunks) = Len(ends)
                 /\ \A k \in 1..Len(chunks) :
                       /\ chunks[k].text =
                             normalize_text(Join(SubSeq(sents, first(k), ends[k]), <<" ">>))
                       /\ \/ Len(chunks[k].text) <= split_in.chunk_size_chars
                          \/ first(k) = ends[k]

\* Most lines of a document of headings.
MaxHeadingItems == 4

\* Documents of headings: a body line and heading lines of two sizes.
HeadingDocItems ==
    {[kind |-> "line", size |-> 10, font |-> "F", text |-> <<"a", ".", " ", "b">>, hf |-> FALSE],
     [kind |-> "line", size |-> 12, font |-> "F", text |-> <<"c">>, hf |-> FALSE],
     [kind |-> "line", size |-> 14, font |-> "F", text |-> <<"d">>, hf |-> FALSE]}

InitSections ==
    /\ parser \in ParserConfigs
    /\ doc \in SeqsUpTo(HeadingDocItems, MaxHeadingItems)
    /\ parse_ret = NoCall
    /\ AsmIdle /\ ChunkIdle /\ RerankIdle
    /\ SearchIdle /\ OptIdle /\ SplitIdle /\ CallIdle /\ KbIdle

SpecSections == InitSections /\ [][NextParse]_vars

\* C16 (as claimed): along the section_path of every returned chunk each
\* heading has a strictly larger font size than the heading after it.
C16_SectionPathSizesDecrease ==
    ParseDone =>
        \A k \in 1..Len(parse_ret.chunks) :
            LET path == parse_ret.chunks[k].section_path
            IN \A i, j \in 1..Len(path) : i < j => path[i].size > path[j].size

(***************************************************************************)
(* The blocks of stitch_neighbors over several sections                    *)
(***************************************************************************)
\* Longest candidate list of the several-section runs.
MaxBlockCands == 2

\* Candidates from two documents ("d", "e") whose sections can bear the same
\* name.
BlockHits ==
    [section_path : {"A", "B"}, source : {"d", "e"}, content : {<<"a">>, <<"b">>},
     chunk_index : {<<>>, <<0>>, <<1>>}, score : {1}]

\* One candidate per chunk: chunk_index is unique within a document.
DistinctChunks(hits) ==
    \A i, j \in 1..Len(hits) :
        (i # j /\ hits[i].chunk_index # <<>>)
            => ~(hits[i].source = hits[j].source
                 /\ hits[i].chunk_index = hits[j].chunk_index)

InitBlocks ==
    /\ assembler \in StitchConfigs
    /\ search_results \in {h \in SeqsUpTo(BlockHits, MaxBlockCands) : DistinctChunks(h)}
    /\ asm_ret = NoCall
    /\ ChunkIdle /\ ParseIdle /\ RerankIdle
    /\ SearchIdle /\ OptIdle /\ SplitIdle /\ CallIdle /\ KbIdle

SpecBlocks == InitBlocks /\ [][NextAssemble]_vars

\* The chunk_index values, inf for None, of the candidates of a section.
SectionIndices(section_path) ==
    LET cands == SelectSeq(search_results, LAMBDA h : h.section_path = section_path)
    IN [k \in 1..Len(cands) |->
           IF cands[k].chunk_index = <<>> THEN Inf ELSE cands[k].chunk_index[1]]

\* The chunk_indices of all blocks of a section, in block order.
BlockIndicesOf(section_path) ==
    Concat([k \in 1..Len(asm_ret.stitched) |->
               IF asm_ret.stitched[k].section = <<"section", section_path>>
               THEN asm_ret.stitched[k].chunk_indices ELSE <<>>])

\* Every block belongs to one section, and the blocks of a section hold the
\* indices of that section's candidates, each as often as it was given.
BlocksFromOneSection ==
    /\ \A k \in 1..Len(asm_ret.stitched) :
          \E sp \in {"A", "B"} : asm_ret.stitched[k].section = <<"section", sp>>
    /\ \A sp \in {"A", "B"} : SameBag(BlockIndicesOf(sp), SectionIndices(sp))

\* C17 (as claimed): the chunk_indices of each block come from one section,
\* ascend without a duplicate, and are pairwise within neighbor_gap.
C17_BlocksPairwiseWithinGap ==
    AsmDone =>
        /\ BlocksFromOneSection
        /\ \A b \in 1..Len(asm_ret.stitched) :
              LET idx == asm_ret.stitched[b].chunk_indices
              IN \A i, j \in 1..Len(idx) :
                    i < j => /\ idx[i] < idx[j]
                             /\ idx[j] - idx[i] <= assembler.neighbor_gap

(***************************************************************************)
(* Scores and provider failures                                            *)
(***************************************************************************)
\* C19 (as claimed): the score rerank attaches to a candidate and sorts it by
\* is the ranking function's score of that candidate, never a default.
C19_ScoresAreRankingScores ==
    rr_ret.status = "ok" =>
        \A k \in 1..Len(rr_ret.sorted_docs) :
            LET d == rr_ret.sorted_docs[k]
                i == PosOf(rr_ret.input, d.id)
            IN /\ i <= Len(bm25.scores)
               /\ get_score_from_doc(d) = bm25.scores[i]

\* C20: when the embedding provider call fails, semantic_chunk_text ends in
\* an error and returns no chunk.
C20_ProviderFailurePropagates ==
    (chunk_ret.status # "none" /\ chunk_ret.provider = "failed")
        => chunk_ret.status = "error" /\ chunk_ret.chunks = <<>>

\* C20 witness: the text has two sentences, the provider was called and
\* failed, and the call ended in an error.
C20_Witness ==
    /\ chunk_ret.status = "error"
    /\ chunk_ret.provider = "failed"
    /\ Len(chunk_ret.sentences) = 2

(***************************************************************************)
(* Two calls on one instance                                               *)
(* Two calls of one operation (assemble, rerank or parse) are made on the  *)
(* same ContextAssembler, BM25Reranker or UniversalPDFParser, each with    *)
(* its own argument. A call runs in steps, its local variables in its own  *)
(* frame; the steps of the two calls interleave in every order, one call   *)
(* after the other included. The instance's fields are read, never         *)
(* written: no method assigns to self after __init__.                      *)
(***************************************************************************)
Calls == {1, 2}

\* Mutant of ParseLocals: chunk_index and section_path are kept on the
\* instance and not reset, so a call starts from what another call left.
ParseLocalsOnInstance(frames) ==
    IF \E k \in 1..Len(frames) : frames[k].pc # "start"
    THEN LET k == CHOOSE k \in 1..Len(frames) : frames[k].pc # "start"
         IN [status |-> "ok", chunks |-> <<>>, current_section_text |-> <<>>,
             section_path |-> frames[k].st.section_path,
             chunk_index |-> frames[k].st.chunk_index]
    ELSE [status |-> "ok", chunks |-> <<>>, current_section_text |-> <<>>,
          section_path |-> <<>>, chunk_index |-> 0]

\* The locals _parse_with_styles starts from, whatever the frames of the
\* other calls hold: chunks = [], current_section_text = "",
\* section_path = [], chunk_index = 0.
ParseLocals(frames) ==
    [status |-> "ok", chunks |-> <<>>, current_section_text |-> <<>>,
     section_path |-> <<>>, chunk_index |-> 0]

\* Entering the call: the frame after the statements before the first loop.
StartFrame(kind, input, frames) ==
    IF kind = "parse"
    THEN [pc |-> "loop", pages |-> Pages(input), styles |-> analyze_font_styles(input),
          st |-> ParseLocals(frames)]
    ELSE IF kind = "assemble"
    THEN IF input = <<>>
         THEN [pc |-> "return", ret |-> [status |-> "ok", context |-> <<>>]]
         ELSE [pc |-> "grouped", grouped |-> group_by_section(input)]
    ELSE [pc |-> "loop", scores |-> bm25.scores, i |-> 1, docs |-> input]

\* One step of parse: the next page, or the final flush and the return.
ParseStep(f) ==
    IF f.pages = <<>>
    THEN [f EXCEPT !.pc = "return"]
             @@ [ret |-> [status |-> "ok",
                          chunks |-> IF Strip(f.st.current_section_text) # <<>>
                                     THEN f.st.chunks \o
                                          split_text_into_chunks(f.st.current_section_text,
                                              f.st.section_path, f.st.chunk_index,
                                              parser.chunk_size_chars)
                                     ELSE f.st.chunks]]
    ELSE IF NoExtractableText(Head(f.pages))
    THEN [f EXCEPT !.pc = "return"] @@ [ret |-> [status |-> "error", chunks |-> <<>>]]
    ELSE [f EXCEPT !.pages = Tail(@),
                   !.st = ParseLines(Head(f.pages), @, f.styles, parser.chunk_size_chars)]

\* One step of assemble: stitch, deduplicate, sort and cut, render.
AssembleStep(f) ==
    IF f.pc = "grouped"
    THEN IF f.grouped = <<>>
         THEN [pc |-> "return", ret |-> [status |-> "ok", context |-> <<>>]]
         ELSE [pc |-> "stitched",
               stitched |-> stitch_neighbors(f.grouped, assembler.neighbor_gap)]
    ELSE IF f.pc = "stitched"
    THEN IF f.stitched = <<>>
         THEN [pc |-> "return", ret |-> [status |-> "ok", context |-> <<>>]]
         ELSE [pc |-> "deduped",
               deduped |-> deduplicate(f.stitched, assembler.similarity_threshold)]
    ELSE IF f.pc = "deduped"
    THEN [pc |-> "selected",
          selected |-> SlicePrefix(SortByAvgScoreDesc(f.deduped), assembler.max_chunks)]
    ELSE [pc |-> "return",
          ret |-> [status |-> "ok",
                   context |-> [k \in 1..Len(f.selected) |-> RenderBlock(f.selected[k])]]]

\* One step of rerank: the next candidate is tagged, or the list is sorted
\* and returned.
RerankStep(f) ==
    IF f.i <= Len(f.docs)
    THEN [f EXCEPT !.docs[f.i] = set_score_on_doc(@, ScoreAt(f.scores, f.i)),
                   !.i = @ + 1]
    ELSE [f EXCEPT !.pc = "return"]
             @@ [ret |-> [status |-> "ok", sorted_docs |-> SortByScoreDesc(f.docs)]]

StepFrame(kind, f) ==
    IF kind = "parse" THEN ParseStep(f)
    ELSE IF kind = "assemble" THEN AssembleStep(f)
    ELSE RerankStep(f)

InProgress(f) == f.pc \notin {"start", "done"}

\* Call c is entered.
CallStart(c) ==
    /\ frame[c].pc = "start"
    /\ frame' = [frame EXCEPT ![c] = StartFrame(call_kind, call_in[c], frame)
                                        @@ [overlapped |-> \E d \in Calls : InProgress(frame[d])]]
    /\ UNCHANGED <<call_kind, call_in, call_ret, asmVars, chunkVars, parseVars,
                   rerankVars, searchVars, optVars, splitVars, kbVars>>

\* Call c takes a step.
CallStep(c) ==
    /\ InProgress(frame[c]) /\ frame[c].pc # "return"
    /\ frame' = [frame EXCEPT ![c] = StepFrame(call_kind, frame[c])
                                        @@ [overlapped |-> frame[c].overlapped]]
    /\ UNCHANGED <<call_kind, call_in, call_ret, asmVars, chunkVars, parseVars,
                   rerankVars, searchVars, optVars, splitVars, kbVars>>

\* Call c returns (or raises).
CallReturn(c) ==
    /\ frame[c].pc = "return"
    /\ call_ret' = [call_ret EXCEPT ![c] = frame[c].ret]
    /\ frame' = [frame EXCEPT ![c].pc = "done"]
    /\ UNCHANGED <<call_kind, call_in, asmVars, chunkVars, parseVars,
                   rerankVars, searchVars, optVars, splitVars, kbVars>>

\* Longest argument (document, candidate list) of a call.
MaxCallItems == 2

CallDocItems ==
    {[kind |-> "line", size |-> 10, font |-> "F", text |-> <<"a", ".", " ", "b">>, hf |-> FALSE],
     [kind |-> "line", size |-> 12, font |-> "F", text |-> <<"c">>, hf |-> FALSE],
     [kind |-> "pagebreak", size |-> 0, font |-> "", text |-> <<>>, hf |-> FALSE]}

CallHits ==
    {[section_path |-> "A", source |-> "d", content |-> <<"a">>, chunk_index |-> <<0>>, score |-> 1],
     [section_path |-> "A", source |-> "d", content |-> <<"a">>, chunk_index |-> <<1>>, score |-> 2],
     [section_path |-> "B", source |-> "d", content |-> <<"b">>, chunk_index |-> <<0>>, score |-> 2]}

CallDocLists ==
    UNION {{[k \in 1..n |-> [id |-> k, kind |-> kinds[k], bm25_score |-> <<>>]] :
               kinds \in [1..n -> {"dict", "dict_payload_none"}]} : n \in 0..MaxCallItems}

CallInputs(kind) ==
    IF kind = "parse" THEN SeqsUpTo(CallDocItems, MaxCallItems)
    ELSE IF kind = "assemble" THEN SeqsUpTo(CallHits, MaxCallItems)
    ELSE CallDocLists

InitCalls ==
    /\ call_kind \in {"parse", "assemble", "rerank"}
    /\ call_in \in [Calls -> CallInputs(call_kind)]
    /\ frame = [c \in Calls |-> [pc |-> "start"]]
    /\ call_ret = [c \in Calls |-> NoCall]
    /\ IF call_kind = "parse" THEN parser \in ParserConfigs
       ELSE parser = [chunk_size_chars |-> DefaultChunkSize]
    /\ doc = <<>> /\ parse_ret = NoCall
    /\ IF call_kind = "assemble" THEN assembler \in StitchConfigs
       ELSE assembler = [max_chunks |-> DefaultMaxChunks,
                         similarity_threshold |-> DefaultThreshold,
                         neighbor_gap |-> DefaultNeighborGap]
    /\ search_results = <<>> /\ asm_ret = NoCall
    /\ IF call_kind = "rerank"
       THEN /\ corpus = << <<"a", " ", "b">> >>
            /\ bm25 \in BM25Okapi([k \in 1..Len(corpus) |-> Tokenize(corpus[k])])
       ELSE corpus = <<>> /\ bm25 = NoCall
    /\ docs = <<>>
    /\ rr_ret = [status |-> "none", calls |-> 0]
    /\ rr_prev = [status |-> "none", calls |-> 0]
    /\ ChunkIdle /\ SearchIdle /\ OptIdle /\ SplitIdle /\ KbIdle

NextCalls == \E c \in Calls : CallStart(c) \/ CallStep(c) \/ CallReturn(c)

SpecCalls == InitCalls /\ [][NextCalls]_vars

\* What the call returns when it is the only call ever made on the instance.
AloneResult(kind, input) ==
    IF kind = "parse"
    THEN LET r == parse_with_styles(input, parser.chunk_size_chars)
         IN [status |-> r.status, chunks |-> r.chunks]
    ELSE IF kind = "assemble"
    THEN [status |-> "ok", context |-> assemble(assembler, input).context]
    ELSE [status |-> "ok", sorted_docs |-> SortByScoreDesc(TagDocs(input, bm25.scores))]

\* C18: two assemble, rerank or parse calls on one instance, interleaved in
\* any order, each return what the call returns when run alone, and a parse
\* starts from chunk_index 0 and an empty section path.
C18_CallsIndependent ==
    call_kind # "none" =>
        \A c \in Calls :
            /\ frame[c].pc = "done" => call_ret[c] = AloneResult(call_kind, call_in[c])
            /\ (call_kind = "parse" /\ frame[c].pc = "loop"
                    /\ frame[c].pages = Pages(call_in[c]))
                  => /\ frame[c].st.chunk_index = 0
                     /\ frame[c].st.section_path = <<>>

\* C18 witness: two parse calls overlapped (the second was entered while
\* the first was running), the first ended with a section path and a chunk
\* index above 0, and both returned chunks, different ones.
C18_Witness ==
    /\ call_kind = "parse"
    /\ frame[1].pc = "done" /\ frame[2].pc = "done"
    /\ frame[2].overlapped
    /\ frame[1].st.section_path # <<>> /\ frame[1].st.chunk_index > 0
    /\ call_ret[1].status = "ok" /\ call_ret[2].status = "ok"
    /\ call_ret[1].chunks # <<>> /\ call_ret[2].chunks # <<>>
    /\ call_ret[1].chunks # call_ret[2].chunks

(***************************************************************************)
(* search_knowledge_base and its fallback stages                           *)
(* The services (generate_embedding, semantic_search, generate_answer,     *)
(* web_search) are the environment: what they answer is part of kb_in.     *)
(* Every call of a service is appended to the trace of the result, in the  *)
(* order the calls are awaited. Scores are in tenths, confidences in       *)
(* hundredths.                                                             *)
(***************************************************************************)
MIN_RELEVANCE == 6
TOP_K == 8
MIN_CHUNKS == 3

\* str.upper over the letters the replies use.
Upper(c) ==
    IF c = "n" THEN "N" ELSE IF c = "o" THEN "O" ELSE IF c = "a" THEN "A"
    ELSE IF c = "s" THEN "S" ELSE IF c = "w" THEN "W" ELSE IF c = "e" THEN "E"
    ELSE IF c = "r" THEN "R" ELSE c

NO_ANSWER == <<"N", "O", "_", "A", "N", "S", "W", "E", "R">>

\* not answer.strip() or answer.strip().upper() == "NO_ANSWER"
BlankOrNoAnswer(answer) ==
    \/ Strip(answer) = <<>>
    \/ [k \in 1..Len(Strip(answer)) |-> Upper(Strip(answer)[k])] = NO_ANSWER

\* x or y, on strings.
OrElse(x, y) == IF x # <<>> THEN x ELSE y

Paragraphs == <<"\n", "\n">>

KbEvent(call, stage, context, reply) ==
    [call |-> call, stage |-> stage, context |-> context,
     ok |-> reply.ok, reply |-> reply.text]

NoReply == [ok |-> TRUE, text |-> <<>>]

Raised == [ok |-> FALSE, text |-> <<>>]

NoResponse == [answer |-> <<>>, sources |-> <<>>, generated_by |-> "", confidence |-> 0]

KbRaise(trace) == [status |-> "error", response |-> NoResponse, trace |-> trace]

KbReturn(response, trace) == [status |-> "ok", response |-> response, trace |-> trace]

\* The reply generate_answer gives to the next call: the replies are
\* consumed in the order of the calls.
NextReply(in, trace) ==
    in.replies[1 + Len(SelectSeq(trace, LAMBDA e : e.call = "generate_answer"))]

\* build_sources: one SourceInfo per document name, the first one met.
RECURSIVE BuildSourcesFold(_, _)
BuildSourcesFold(raw_results, sources) ==
    IF raw_results = <<>> THEN sources
    ELSE LET item == Head(raw_results)
             document == OrElse(item.document, <<"U", "n", "k", "n", "o", "w", "n">>)
         IN  IF \E k \in 1..Len(sources) : sources[k].document = document
             THEN BuildSourcesFold(Tail(raw_results), sources)
             ELSE BuildSourcesFold(Tail(raw_results),
                      Append(sources, [document |-> document,
                                       chunks_used |-> item.chunks_used,
                                       relevance |-> item.relevance]))

build_sources(raw_results) == BuildSourcesFold(raw_results, <<>>)

\* round(min(len(web_results) / TOP_K, 1.0), 2), in hundredths: the quotient
\* is a multiple of 1/8, exact in binary, so round goes to the even neighbour
\* on a tie.
WebConfidence(n) ==
    IF n >= TOP_K THEN 100
    ELSE LET q == (100 * n) \div TOP_K
             rem == (100 * n) % TOP_K
         IN  IF 2 * rem > TOP_K THEN q + 1
             ELSE IF 2 * rem = TOP_K THEN q + (q % 2)
             ELSE q

\* The raw sources of a web result list: web_search gives 'document', 'url',
\* 'chunks_used' and 'relevance', never 'title', 'content' or 'snippet'.
WebRawSources(web_results) ==
    [k \in 1..Len(web_results) |->
        [document |-> web_results[k].url, chunks_used |-> <<>>, relevance |-> 0]]

\* _ai_then_web_fallback, lines 344-392.
ai_then_web_fallback(in, trace) ==
    LET stage == "_ai_then_web_fallback"
        t1 == Append(trace, KbEvent("web_search", stage, <<>>, NoReply))
        web_results == in.web
    IN  IF web_results = <<>>
        THEN LET reply == NextReply(in, t1)
                 t2 == Append(t1, KbEvent("generate_answer", stage, <<>>, reply))
             IN  IF ~reply.ok THEN KbRaise(t2)
                 ELSE KbReturn([answer |-> OrElse(Strip(reply.text), NO_ANSWER),
                                sources |-> <<>>,
                                generated_by |-> "AI-only",
                                confidence |-> 0], t2)
        ELSE LET \* no result has 'content' or 'snippet': context_texts stays
                 \* empty in the loop and is then the titles or urls
                 context_texts == [k \in 1..Len(web_results) |-> web_results[k].url]
                 full_context == Join(context_texts, Paragraphs)
                 reply == NextReply(in, t1)
                 t2 == Append(t1, KbEvent("generate_answer", stage, full_context, reply))
             IN  IF ~reply.ok THEN KbRaise(t2)
                 ELSE KbReturn([answer |-> IF BlankOrNoAnswer(reply.text)
                                           THEN OrElse(full_context, NO_ANSWER)
                                           ELSE reply.text,
                                sources |-> build_sources(WebRawSources(web_results)),
                                generated_by |-> "Web + AI fallback",
                                confidence |-> WebConfidence(Len(web_results))], t2)

\* _ai_only going on to the web stage whatever the generation replied.
ai_only_always_web(in, trace) ==
    LET reply == NextReply(in, trace)
        t1 == Append(trace, KbEvent("generate_answer", "_ai_only", <<>>, reply))
    IN  IF ~reply.ok THEN KbRaise(t1)
        ELSE ai_then_web_fallback(in, t1)

\* _ai_only, lines 283-296.
ai_only(in, trace) ==
    LET reply == NextReply(in, trace)
        t1 == Append(trace, KbEvent("generate_answer", "_ai_only", <<>>, reply))
    IN  IF ~reply.ok THEN KbRaise(t1)
        ELSE IF BlankOrNoAnswer(reply.text) THEN ai_then_web_fallback(in, t1)
        ELSE KbReturn([answer |-> Strip(reply.text),
                       sources |-> <<>>,
                       generated_by |-> "AI-only",
                       confidence |-> 0], t1)

\* _online_search, lines 301-341.
online_search(in, trace) ==
    LET stage == "_online_search"
        t1 == Append(trace, KbEvent("web_search", stage, <<>>, NoReply))
        web_results == in.web
    IN  IF web_results = <<>>
        THEN LET reply == NextReply(in, t1)
                 t2 == Append(t1, KbEvent("generate_answer", stage, <<>>, reply))
             IN  IF ~reply.ok THEN KbRaise(t2)
                 ELSE KbReturn([answer |-> OrElse(Strip(reply.text), NO_ANSWER),
                                sources |-> <<>>,
                                generated_by |-> "AI-only",
                                confidence |-> 0], t2)
        ELSE LET \* clean_text(content or snippet or title or "") is "" for
                 \* every result of web_search: nothing joins the context
                 full_context == <<>>
                 reply == NextReply(in, t1)
                 t2 == Append(t1, KbEvent("generate_answer", stage, full_context, reply))
             IN  IF ~reply.ok THEN KbRaise(t2)
                 ELSE KbReturn([answer |-> IF Strip(reply.text) = <<>>
                                           THEN OrElse(full_context, NO_ANSWER)
                                           ELSE reply.text,
                                sources |-> build_sources(WebRawSources(web_results)),
                                generated_by |-> "Online + AI",
                                confidence |-> WebConfidence(Len(web_results))], t2)

\* The hits the loop of lines 246-257 keeps: score at least MIN_RELEVANCE.
Relevant(found) == SelectSeq(found, LAMBDA hit : hit.score >= MIN_RELEVANCE)

\* top_chunks: the non-empty contents of the relevant hits.
TopChunks(found) ==
    LET kept == SelectSeq(Relevant(found), LAMBDA hit : hit.content # <<>>)
    IN  [k \in 1..Len(kept) |-> kept[k].content]

\* source_map and relevance_map, as a list in insertion order of
\* [document, idxs, scores].
RECURSIVE SourceMapFold(_, _)
SourceMapFold(hits, acc) ==
    IF hits = <<>> THEN acc
    ELSE LET hit == Head(hits)
             at == {k \in 1..Len(acc) : acc[k].document = hit.source}
         IN  IF hit.source = <<>> THEN SourceMapFold(Tail(hits), acc)
             ELSE IF at = {}
             THEN SourceMapFold(Tail(hits),
                      Append(acc, [document |-> hit.source,
                                   idxs |-> {hit.chunk_index},
                                   top |-> hit.score]))
             ELSE LET k == CHOOSE k \in at : TRUE
                  IN  SourceMapFold(Tail(hits),
                          [acc EXCEPT ![k].idxs = @ \cup {hit.chunk_index},
                                      ![k].top = IF hit.score > @ THEN hit.score ELSE @])

\* sorted(set(idxs))
RECURSIVE SortedSeq(_)
SortedSeq(S) ==
    IF S = {} THEN <<>>
    ELSE LET m == CHOOSE x \in S : \A y \in S : x <= y
         IN  <<m>> \o SortedSeq(S \ {m})

\* raw_sources, lines 266-269; relevance in hundredths.
DocRawSources(found) ==
    LET sm == SourceMapFold(Relevant(found), <<>>)
    IN  [k \in 1..Len(sm) |->
            [document |-> sm[k].document,
             chunks_used |-> SortedSeq(sm[k].idxs),
             relevance |-> 10 * sm[k].top]]

\* max([s.relevance for s in sources], default=0.0)
MaxRelevance(sources) ==
    IF sources = <<>> THEN 0
    ELSE CHOOSE m \in {sources[k].relevance : k \in 1..Len(sources)} :
            \A k \in 1..Len(sources) : sources[k].relevance <= m

\* search_knowledge_base, lines 224-281.
search_knowledge_base(in) ==
    IF in.mode = "online" THEN online_search(in, <<>>)
    ELSE
    LET stage == "search_knowledge_base"
        t1 == <<KbEvent("generate_embedding", stage, <<>>, [ok |-> in.embedding_ok, text |-> <<>>])>>
        t2 == Append(t1, KbEvent("semantic_search", stage, <<>>, [ok |-> in.first.ok, text |-> <<>>]))
        retried == in.first.results = <<>> \/ Len(in.first.results) < in.min_chunks
        t3 == IF retried
              THEN Append(t2, KbEvent("semantic_search", stage, <<>>, [ok |-> in.retry.ok, text |-> <<>>]))
              ELSE t2
        found == IF retried THEN in.retry.results ELSE in.first.results
    IN  IF ~in.embedding_ok THEN KbRaise(t1)
        ELSE IF ~in.first.ok THEN KbRaise(t2)
        ELSE IF retried /\ ~in.retry.ok THEN KbRaise(t3)
        ELSE IF found # <<>>
        THEN LET context == Join(TopChunks(found), Paragraphs)
                 reply == NextReply(in, t3)
                 t4 == Append(t3, KbEvent("generate_answer", stage, context, reply))
                 sources == build_sources(DocRawSources(found))
             IN  IF ~reply.ok THEN KbRaise(t4)
                 ELSE IF BlankOrNoAnswer(reply.text) THEN ai_only(in, t4)
                 ELSE KbReturn([answer |-> OrElse(Strip(reply.text), NO_ANSWER),
                                sources |-> sources,
                                generated_by |-> "Hybrid (Docs + AI)",
                                confidence |-> MaxRelevance(sources)], t4)
        ELSE ai_only(in, t3)

\* One call of search_knowledge_base.
SearchKnowledgeBase ==
    /\ kb_ret.status = "none"
    /\ kb_ret' = search_knowledge_base(kb_in)
    /\ UNCHANGED <<kb_in, asmVars, chunkVars, parseVars, rerankVars,
                   searchVars, optVars, splitVars, callVars>>

\* Longest list the vector search answers, and longest web result list.
MaxKbHits == 2
MaxWeb == 1

KbHits == [score : {5, 7}, content : {<<>>, <<"c">>}, source : {<<"s">>}, chunk_index : {0}]

\* What semantic_search answers: at most `limit` hits, or an exception.
KbSearchAnswers(limit) ==
    {[ok |-> TRUE, results |-> r] : r \in SeqsUpTo(KbHits, limit)}
        \cup {[ok |-> FALSE, results |-> <<>>]}

\* What generate_answer replies: blank, NO_ANSWER in some spelling, an
\* answer, or an exception.
KbReplies ==
    {[ok |-> TRUE, text |-> t] :
        t \in {<<" ">>, <<" ", "n", "o", "_", "a", "n", "s", "w", "e", "r">>, <<"y", " ">>}}
        \cup {Raised}

WebResults == [url : {<<>>, <<"u">>}]

\* The offline inputs: every answer of the vector search, first call and
\* retry. The online inputs: the vector search is not called.
KbInputs ==
    [mode : {"hybrid"}, min_chunks : {1, MIN_CHUNKS}, embedding_ok : {TRUE},
     first : KbSearchAnswers(MaxKbHits), retry : KbSearchAnswers(1),
     replies : [1..3 -> KbReplies], web : SeqsUpTo(WebResults, MaxWeb)]
    \cup
    [mode : {"online", "semantic"}, min_chunks : {MIN_CHUNKS}, embedding_ok : {FALSE},
     first : KbSearchAnswers(0), retry : KbSearchAnswers(0),
     replies : [1..3 -> KbReplies], web : SeqsUpTo(WebResults, MaxWeb)]

InitKb ==
    /\ kb_in \in KbInputs
    /\ kb_ret = NoCall
    /\ AsmIdle /\ ChunkIdle /\ ParseIdle /\ RerankIdle
    /\ SearchIdle /\ OptIdle /\ SplitIdle /\ CallIdle

NextKb == SearchKnowledgeBase

SpecKb == InitKb /\ [][NextKb]_vars

KbDone == kb_ret.status = "ok"

\* The vector search results the call worked with.
KbSearchResults ==
    IF kb_in.first.results = <<>> \/ Len(kb_in.first.results) < kb_in.min_chunks
    THEN kb_in.retry.results
    ELSE kb_in.first.results

\* The context available for the query is empty: no result, or no result
\* with a score of at least MIN_RELEVANCE.
NoContext ==
    \A k \in 1..Len(KbSearchResults) : KbSearchResults[k].score < MIN_RELEVANCE

\* C21: when the context available for the query is empty (no result of the
\* vector search, or none with a score of at least MIN_RELEVANCE), the
\* response is not labelled 'Hybrid (Docs + AI)'.
C21_NoContextNotHybrid ==
    (KbDone /\ kb_in.mode # "online" /\ NoContext)
        => kb_ret.response.generated_by # "Hybrid (Docs + AI)"

\* Event k of the trace is a generation of the given stage.
IsGeneration(k, stage) ==
    kb_ret.trace[k].call = "generate_answer" /\ kb_ret.trace[k].stage = stage

\* Before event k, a generation of the given stage replied blank or NO_ANSWER.
GaveNoAnswerBefore(k, stage) ==
    \E j \in 1..(k - 1) :
        /\ IsGeneration(j, stage)
        /\ kb_ret.trace[j].ok
        /\ BlankOrNoAnswer(kb_ret.trace[j].reply)

\* Before event k, the vector search was called and it returned nothing.
SearchEmptyBefore(k) ==
    /\ KbSearchResults = <<>>
    /\ \E j \in 1..(k - 1) : kb_ret.trace[j].call = "semantic_search" /\ kb_ret.trace[j].ok

\* C29: with a mode other than 'online', the generation of _ai_only (empty
\* context), like every generation after the document stage, is called only
\* after the vector search returned nothing or the document-context
\* generation replied blank or NO_ANSWER, and web_search is called only
\* after the generation of _ai_only replied blank or NO_ANSWER.
C29_FallbackStagesInOrder ==
    (kb_ret.status # "none" /\ kb_in.mode # "online") =>
        \A k \in 1..Len(kb_ret.trace) :
            /\ IsGeneration(k, "_ai_only") => kb_ret.trace[k].context = <<>>
            /\ (kb_ret.trace[k].call = "generate_answer"
                    /\ kb_ret.trace[k].stage # "search_knowledge_base")
                  => \/ SearchEmptyBefore(k)
                     \/ GaveNoAnswerBefore(k, "search_knowledge_base")
            /\ kb_ret.trace[k].call = "web_search" =>
                  GaveNoAnswerBefore(k, "_ai_only")

\* C29 witness: the document-context generation replied blank, the AI-only
\* generation replied NO_ANSWER, and the web stage answered.
C29_Witness ==
    /\ KbDone /\ kb_in.mode # "online"
    /\ KbSearchResults # <<>>
    /\ kb_ret.response.generated_by = "Web + AI fallback"
    /\ \E i, j, k \in 1..Len(kb_ret.trace) :
          /\ i < j /\ j < k
          /\ IsGeneration(i, "search_knowledge_base") /\ kb_ret.trace[i].context # <<>>
          /\ IsGeneration(j, "_ai_only")
          /\ kb_ret.trace[k].call = "web_search"

(***************************************************************************)
(* The semantic chunker: the merge rule                                    *)
(***************************************************************************)
Answered == ChunkDone /\ chunk_ret.provider = "answered"

\* The chunk that holds sentence i.
SpanOf(i) ==
    CHOOSE k \in 1..Len(chunk_ret.spans) :
        chunk_ret.spans[k][1] <= i /\ i <= chunk_ret.spans[k][2]

\* Sentences i - 1 and i are in the same chunk: sentence i was appended to
\* the running chunk.
Appended(i) == SpanOf(i - 1) = SpanOf(i)

\* The running chunk when sentence i is met: the sentences of the chunk of
\* sentence i - 1, up to sentence i - 1, joined by single spaces.
RunningChunk(i) ==
    Join(SubSeq(chunk_ret.sentences, chunk_ret.spans[SpanOf(i - 1)][1], i - 1), <<" ">>)

ZeroVector(v) == Dot(v, v) = 0

\* C22: sentence i is appended to the running chunk exactly when the cosine
\* of embeddings i - 1 and i is at least the threshold and the running chunk
\* plus ' ' plus the sentence is at most max_tokens long; otherwise the
\* running chunk is emitted and sentence i starts a new chunk.
C22_AppendedExactlyWhenSimilarAndFits ==
    Answered =>
        \A i \in 2..Len(chunk_ret.sentences) :
            Appended(i) <=>
                /\ CosineAtLeast(chunk_ret.embeddings[i - 1], chunk_ret.embeddings[i],
                                 chunk_in.similarity_threshold)
                /\ Len(RunningChunk(i) \o <<" ">> \o chunk_ret.sentences[i])
                      <= chunk_in.max_tokens

\* C23: with a threshold above 0, two consecutive sentences of which one has
\* the zero vector as its embedding are never in the same chunk.
C23_ZeroVectorNeverMerged ==
    (Answered /\ chunk_in.similarity_threshold[1] > 0) =>
        \A i \in 2..Len(chunk_ret.sentences) :
            (ZeroVector(chunk_ret.embeddings[i - 1]) \/ ZeroVector(chunk_ret.embeddings[i]))
                => ~Appended(i)

\* C28: the chunks joined by single spaces are the stripped non-empty
\* sentences of the text joined by single spaces.
C28_NoSentenceLostDuplicatedReordered ==
    Answered =>
        Join(chunk_ret.chunks, <<" ">>) = Join(ChunkSentences(chunk_in.text), <<" ">>)

\* C28 witness: three sentences, the first two merged and the third in a
\* chunk of its own.
C28_Witness ==
    /\ Answered
    /\ Len(chunk_ret.sentences) = 3
    /\ chunk_ret.spans = << <<1, 2>>, <<3, 3>> >>

(***************************************************************************)
(* The structured parser: the section stack at a heading, the handle       *)
(***************************************************************************)
\* The locals of _parse_with_styles before the first text line and after
\* each text line, in order.
RECURSIVE StatesWalk(_, _, _, _)
StatesWalk(lines, st, styles, cap) ==
    IF lines = <<>> THEN <<st>>
    ELSE <<st>> \o StatesWalk(Tail(lines), ParseLine(st, Head(lines), styles, cap), styles, cap)

ParseStates ==
    StatesWalk(TextLines(doc),
               [status |-> "ok", chunks |-> <<>>, current_section_text |-> <<>>,
                section_path |-> <<>>, chunk_index |-> 0],
               analyze_font_styles(doc), parser.chunk_size_chars)

\* The text line is met as a heading.
MetAsHeading(l, styles) ==
    ~l.hf /\ Strip(l.text) # <<>> /\ l.size > styles.body_style_size

\* The rank of a font size: how many heading styles have a larger size,
\* which is the position of the size among the heading styles in
\* descending order of size.
Rank(size, styles) ==
    Cardinality({k \in 1..Len(styles.heading_styles) : styles.heading_styles[k][1] > size})

\* The chunks appended between two states of the locals.
Flushed(before, after) == SubSeq(after.chunks, Len(before.chunks) + 1, Len(after.chunks))

\* C24: at a heading of rank r the section stack becomes its first r entries
\* followed by the heading, so it has at most r + 1 entries and ends with the
\* heading; the text accumulated before the heading is flushed with the
\* stack as it was before the truncation.
C24_HeadingTruncatesThenPushes ==
    ParseDone =>
        LET states == ParseStates
            styles == analyze_font_styles(doc)
            lines == TextLines(doc)
        IN  \A k \in 1..Len(lines) :
                MetAsHeading(lines[k], styles) =>
                    LET r == Rank(lines[k].size, styles)
                        before == states[k]
                        after == states[k + 1]
                        flushed == Flushed(before, after)
                        heading == [text |-> normalize_text(lines[k].text),
                                    size |-> lines[k].size]
                    IN  /\ after.section_path =
                              Append(SubSeq(before.section_path, 1,
                                            IF r < Len(before.section_path)
                                            THEN r ELSE Len(before.section_path)),
                                     heading)
                        /\ Len(after.section_path) <= r + 1
                        /\ after.section_path[Len(after.section_path)] = heading
                        /\ after.current_section_text = <<>>
                        /\ (Strip(before.current_section_text) # <<>>) <=> (flushed # <<>>)
                        /\ \A j \in 1..Len(flushed) :
                              /\ flushed[j].section_path = before.section_path
                              /\ \E i \in 1..Len(parse_ret.chunks) :
                                    parse_ret.chunks[i] = flushed[j]

\* C24 witness: a heading met with text accumulated under a deeper stack:
\* the text is flushed under the old stack, the stack is cut and the
\* heading pushed.
C24_Witness ==
    /\ ParseDone
    /\ LET states == ParseStates
           styles == analyze_font_styles(doc)
           lines == TextLines(doc)
       IN  \E k \in 1..Len(lines) :
               /\ MetAsHeading(lines[k], styles)
               /\ Strip(states[k].current_section_text) # <<>>
               /\ states[k].section_path # <<>>
               /\ Rank(lines[k].size, styles) < Len(states[k].section_path)
               /\ Len(states[k + 1].section_path) = 1
               /\ Flushed(states[k], states[k + 1])[1].section_path = states[k].section_path

\* C30: when parse has returned or raised, the document handle it opened
\* is closed.
C30_HandleClosed == ParseReturned => parse_ret.closed

(***************************************************************************)
(* The assembler: which blocks are rendered                                *)
(***************************************************************************)
\* How often block b occurs in the list s.
Occurrences(s, b) == Cardinality({k \in 1..Len(s) : s[k] = b})

\* The deduplicated blocks that are not rendered.
Dropped ==
    {b \in Range(asm_ret.deduped) :
        Occurrences(asm_ret.deduped, b) > Occurrences(asm_ret.context, b)}

\* C25: the rendered blocks are deduplicated blocks, in non-increasing
\* avg_score order, and no dropped block has an avg_score strictly greater
\* than that of a rendered block.
C25_RenderedAreHighestScoring ==
    AsmDone =>
        /\ \A k \in 1..Len(asm_ret.context) :
              Occurrences(asm_ret.context, asm_ret.context[k])
                  <= Occurrences(asm_ret.deduped, asm_ret.context[k])
        /\ \A i, j \in 1..Len(asm_ret.context) :
              i < j => ~AvgGT(asm_ret.context[j].avg_score, asm_ret.context[i].avg_score)
        /\ \A d \in Dropped : \A k \in 1..Len(asm_ret.context) :
              ~AvgGT(d.avg_score, asm_ret.context[k].avg_score)

\* C25 witness: two blocks survive deduplication, the lower-scoring one
\* first; max_chunks is 1 and the higher-scoring one is rendered.
C25_Witness ==
    /\ AsmDone
    /\ assembler.max_chunks = 1
    /\ Len(asm_ret.deduped) = 2
    /\ AvgGT(asm_ret.deduped[2].avg_score, asm_ret.deduped[1].avg_score)
    /\ asm_ret.context = <<asm_ret.deduped[2]>>

(***************************************************************************)
(* The assembler: grouping and stitching as a partition                    *)
(***************************************************************************)
\* Longest candidate list of the partition runs.
MaxPartCands == 3

\* Candidates of two sections, with empty, plain and padded content, with
\* and without a chunk_index.
PartHits ==
    [section_path : {"A", "B"}, source : {"d"}, content : {<<>>, <<"a">>, <<" ", "b">>},
     chunk_index : {<<>>, <<0>>, <<1>>}, score : {1}]

InitPartition ==
    /\ assembler \in StitchConfigs
    /\ search_results \in SeqsUpTo(PartHits, MaxPartCands)
    /\ asm_ret = NoCall
    /\ ChunkIdle /\ ParseIdle /\ RerankIdle
    /\ SearchIdle /\ OptIdle /\ SplitIdle /\ CallIdle /\ KbIdle

SpecPartition == InitPartition /\ [][NextAssemble]_vars

\* The candidates with non-empty content, in input order.
Cands == SelectSeq(search_results, LAMBDA h : h.content # <<>>)

Perms(n) == {p \in [1..n -> 1..n] : \A i, j \in 1..n : p[i] = p[j] => i = j}

BlockSizes == [b \in 1..Len(asm_ret.stitched) |-> Len(asm_ret.stitched[b].chunk_indices)]

\* The members of block b when the candidates, taken in the order p, are
\* dealt to the blocks one block after the other.
Members(p, b) ==
    LET start == SumSeq(SubSeq(BlockSizes, 1, b - 1))
    IN  [k \in 1..BlockSizes[b] |-> Cands[p[start + k]]]

IndexOrInf(h) == IF h.chunk_index = <<>> THEN Inf ELSE h.chunk_index[1]

\* C26: the stitched blocks partition the candidates with non-empty
\* content: no block is without members, and the candidates can be dealt to
\* the blocks, each candidate to one block, so that every block has the
\* section of its members, their indices, and their stripped texts joined by
\* newlines and nothing else.
C26_BlocksPartitionCandidates ==
    AsmDone =>
        /\ \A b \in 1..Len(asm_ret.stitched) : BlockSizes[b] >= 1
        /\ SumSeq(BlockSizes) = Len(Cands)
        /\ \E p \in Perms(Len(Cands)) :
              \A b \in 1..Len(asm_ret.stitched) :
                  LET block == asm_ret.stitched[b]
                      members == Members(p, b)
                  IN  /\ \A k \in 1..Len(members) : SectionKey(members[k]) = block.section
                      /\ block.chunk_indices =
                            [k \in 1..Len(members) |-> IndexOrInf(members[k])]
                      /\ block.text =
                            Join([k \in 1..Len(members) |-> Strip(members[k].content)],
                                 <<"\n">>)

\* C26 witness: three candidates with content, two of them stitched into
\* one block, the third in a block of another section.
C26_Witness ==
    /\ AsmDone
    /\ Len(search_results) = 3 /\ Len(Cands) = 3
    /\ Len(asm_ret.stitched) = 2
    /\ BlockSizes = <<2, 1>>
    /\ asm_ret.stitched[1].section # asm_ret.stitched[2].section

\* C27: a candidate without a usable chunk_index is alone in its block:
\* no block of several candidates holds one, and there are as many
\* one-candidate blocks without index as there are such candidates.
C27_MissingIndexNeverStitched ==
    AsmDone =>
        /\ \A b \in 1..Len(asm_ret.stitched) :
              Inf \in Range(asm_ret.stitched[b].chunk_indices) => BlockSizes[b] = 1
        /\ Cardinality({b \in 1..Len(asm_ret.stitched) :
                            asm_ret.stitched[b].chunk_indices = <<Inf>>})
              = Cardinality({k \in 1..Len(Cands) : Cands[k].chunk_index = <<>>})

\* C27 witness: two candidates without chunk_index and one with, all in
\* one section, and three blocks.
C27_Witness ==
    /\ AsmDone
    /\ Len(Cands) = 3
    /\ \A k \in 1..3 : Cands[k].section_path = "A"
    /\ Cardinality({k \in 1..3 : Cands[k].chunk_index = <<>>}) = 2
    /\ Len(asm_ret.stitched) = 3

====
